---- MODULE Spec2Model ----
(***************************************************************************)
(* A model of cackle's symbol-graph construction and API attribution:      *)
(*   names.rs           split_names, Name::starts_with, Display for Name   *)
(*   config/built_in.rs get_built_ins                                      *)
(*   symbol_graph.rs    scan_objects, process_file,                        *)
(*                      process_object_file_bytes, ObjectIndex             *)
(* Text is modelled as sequences of one-character strings, so that parsing *)
(* and formatting are computed and not assumed.                            *)
(***************************************************************************)
EXTENDS Integers, Sequences, FiniteSets, TLC

VARIABLES
    \* ---- names.rs: split_names (one loop iteration per step)
    composite,      \* the input string
    chars,          \* the part of the input the iterator has not yielded yet
    part,           \* String being accumulated
    parts,          \* Vec<String> of the Name being accumulated
    all_names,      \* Vec<Name>
    as_active,      \* bool
    npc,            \* "idle" | "loop" | "done"
    \* ---- the permission table and one apis_for_path call
    table,          \* BTreeMap<PermissionName, PermConfig>
    cand,           \* the candidate Name
    apis,           \* the PermissionNames apis_for_path returned
    ppc,            \* "idle" | "call" | "done"
    \* ---- symbol_graph.rs: one scan_objects call (one loop iteration per step)
    spc,            \* where scan_objects is: "idle" | "start" | "paths" | "archive"
                    \*   | "sections" | "relocs" | "ok" | "err"
    api_usages,     \* graph.outputs.api_usages
    path_i,         \* paths of `paths` already taken from the iterator
    in_archive,     \* the object being walked is an archive entry
    entry_i,        \* entries the scan has taken from archive.next_entry()
    obj,            \* the parsed object file: its symbols and section count
    section_index_to_symbol,    \* ObjectIndex::section_index_to_symbol
    sec_i,          \* index of the section the section loop is at
    nrel,           \* relocations the scan has taken from section.relocations()
    scan_error,     \* the error scan_objects returned
    origin,         \* history: for each ApiUsage, the loop indices that made it
    ev,             \* history: the input the last step read
    \* ---- proxy/rpc.rs: requests written to and read from one stream
    rpc_queue,      \* the Requests the client has still to write
    stream,         \* the bytes written to the stream and not yet read
    rpc_sent,       \* history: the Requests whose write returned Ok
    rpc_write,      \* history: the last write_to_stream call and its result
    rpc_read,       \* history: what each read_from_stream returned and took
    \* ---- ui/full_term.rs: FullTermUi::run, the pipeline and the store
    upc,            \* where run is: "idle" | "recv" | "term" | "top" | "quit" | "redraw"
                    \*   | "try_recv" | "popup_abort" | "returned" | "failed"
    qi,             \* the statement of the quit block run is at
    quit_requested, \* screen.quit_requested()
    error,          \* `error` is Some: a popup is displayed
    needs_redraw,   \* bool
    events,         \* AppEvents sent and not yet received
    sender_alive,   \* the pipeline still holds the event sender
    nevents,        \* ProblemsAdded events the pipeline has sent
    store_lock,     \* who holds the problem-store mutex: "free" | "ui" | "other"
    nlocks,         \* times another thread has taken the mutex
    store_aborted,  \* the problem store is marked aborted
    abort_sent,     \* sends on abort_sender
    terminal,       \* Terminal::new() has returned a terminal
    quit_ops,       \* history: the statements of the quit block run so far
    ui_key,         \* history: the key the last step read
    ui_exit,        \* history: what made run return Ok(())
    \* ---- ui/full_term.rs: update_counter
    cpc,            \* "idle" | "keys" | "panicked"
    list_len,       \* len
    row,            \* *counter
    checks,         \* the build panics on integer overflow
    counter_start,  \* history: *counter before the first key
    counter_keys    \* history: the keys pressed and *counter before each

namesVars == <<composite, chars, part, parts, all_names, as_active, npc>>
permVars == <<table, cand, apis, ppc>>
scanVars ==
    <<spc, api_usages, path_i, in_archive, entry_i, obj, section_index_to_symbol,
      sec_i, nrel, scan_error, origin, ev>>

rpcVars == <<rpc_queue, stream, rpc_sent, rpc_write, rpc_read>>
uiVars ==
    <<upc, qi, quit_requested, error, needs_redraw, events, sender_alive, nevents,
      store_lock, nlocks, store_aborted, abort_sent, terminal, quit_ops, ui_key, ui_exit>>
counterVars == <<cpc, list_len, row, checks, counter_start, counter_keys>>
restVars == <<rpcVars, uiVars, counterVars>>

vars == <<namesVars, permVars, scanVars, restVars>>

(***************************************************************************)
(* Text helpers                                                            *)
(***************************************************************************)
\* The characters of the model's identifiers.
w_a == <<"a">>
w_s == <<"s">>
w_m == <<"m">>
w_x == <<"x">>
w_std == <<"s", "t", "d">>
w_fs == <<"f", "s">>
w_env == <<"e", "n", "v">>
w_path == <<"p", "a", "t", "h">>
w_io == <<"i", "o">>
w_os == <<"o", "s">>
w_linux == <<"l", "i", "n", "u", "x">>
w_unix == <<"u", "n", "i", "x">>
w_wasi == <<"w", "a", "s", "i">>
w_windows == <<"w", "i", "n", "d", "o", "w", "s">>
w_stdio == <<"s", "t", "d", "i", "o">>
w_var == <<"v", "a", "r">>
w_var_os == <<"v", "a", "r", "_", "o", "s">>
w_vars == <<"v", "a", "r", "s">>
w_vars_os == <<"v", "a", "r", "s", "_", "o", "s">>
w_args == <<"a", "r", "g", "s">>
w_net == <<"n", "e", "t">>
w_process == <<"p", "r", "o", "c", "e", "s", "s">>
w_abort == <<"a", "b", "o", "r", "t">>
w_exit == <<"e", "x", "i", "t">>
w_environment == <<"e", "n", "v", "i", "r", "o", "n", "m", "e", "n", "t">>
w_current_dir == <<"c", "u", "r", "r", "e", "n", "t", "_", "d", "i", "r">>
w_alpha == <<"a", "l", "p", "h", "a">>
w_beta == <<"b", "e", "t", "a">>
w_gamma == <<"g", "a", "m", "m", "a">>
w_db == <<"d", "b">>
w_main == <<"m", "a", "i", "n">>
w_init == <<"i", "n", "i", "t">>
w_read == <<"r", "e", "a", "d">>
w_Conn == <<"C", "o", "n", "n">>
w_Vars == <<"V", "a", "r", "s">>
w_local == <<"l", "o", "c", "a", "l">>
w_rustc == <<"r", "u", "s", "t", "c">>
w_cargo == <<"c", "a", "r", "g", "o">>
w_registry == <<"r", "e", "g", "i", "s", "t", "r", "y">>
w_registryx == <<"r", "e", "g", "i", "s", "t", "r", "y", "x">>
w_src == <<"s", "r", "c">>
w_main_rs == <<"m", "a", "i", "n", ".", "r", "s">>
w_lib_rs == <<"l", "i", "b", ".", "r", "s">>
w_shared_rs == <<"s", "h", "a", "r", "e", "d", ".", "r", "s">>
w_gen_rs == <<"g", "e", "n", ".", "r", "s">>
w_rlib == <<"r", "l", "i", "b">>
w_dot_a == <<".", "a">>
slash == <<"/">>
w_fmt == <<"f", "m", "t">>
w_core == <<"c", "o", "r", "e">>
w_ptr == <<"p", "t", "r">>
w_rt == <<"r", "t">>
w_alloc == <<"a", "l", "l", "o", "c">>
w_string == <<"s", "t", "r", "i", "n", "g">>
w_String == <<"S", "t", "r", "i", "n", "g">>
w_Debug == <<"D", "e", "b", "u", "g">>
w_drop_in_place == <<"d", "r", "o", "p", "_", "i", "n", "_", "p", "l", "a", "c", "e">>
w_lang_start == <<"l", "a", "n", "g", "_", "s", "t", "a", "r", "t">>
w_closure == <<"{", "{", "c", "l", "o", "s", "u", "r", "e", "}", "}">>
cc == <<":", ":">>
lt == <<"<">>
gt == <<">">>
sp_as_sp == <<" ", "a", "s", " ">>

RECURSIVE Concat(_)
\* Concatenation of a sequence of strings.
Concat(ss) ==
    IF ss = <<>> THEN <<>> ELSE Head(ss) \o Concat(Tail(ss))

RECURSIVE join(_, _)
\* [String]::join(sep)
join(ss, sep) ==
    IF ss = <<>> THEN <<>>
    ELSE IF Len(ss) = 1 THEN ss[1]
    ELSE ss[1] \o sep \o join(Tail(ss), sep)

\* s is a contiguous substring of t.
IsSubstring(s, t) ==
    \E i \in 0..(Len(t) - Len(s)) : SubSeq(t, i + 1, i + Len(s)) = s

\* <<x1, ..., xn>> is a prefix of t.
IsPrefix(s, t) ==
    /\ Len(s) <= Len(t)
    /\ SubSeq(t, 1, Len(s)) = s

(***************************************************************************)
(* names.rs                                                                *)
(***************************************************************************)
\* impl Display for Name: parts.join("::")
NameToString(name) == join(name, cc)

\* starts_with comparing the joined text character by character.
starts_with_chars(self, ignored_name) ==
    IsPrefix(NameToString(ignored_name), NameToString(self))

\* Name::starts_with: self.parts.starts_with(&ignored_name.parts), the slice
\* method: the prefix is no longer than self and equals self[..n].
starts_with(self, ignored_name) ==
    /\ Len(ignored_name) <= Len(self)
    /\ SubSeq(self, 1, Len(ignored_name)) = ignored_name

\* PushPart pushing a copy of part without taking it.
PushPartNoTake(st) ==
    IF st.part # <<>> THEN [st EXCEPT !.parts = Append(st.parts, st.part)] ELSE st

\* `if !part.is_empty() { parts.push(take(&mut part)) }`
PushPart(st) ==
    IF st.part # <<>>
    THEN [st EXCEPT !.parts = Append(st.parts, st.part), !.part = <<>>]
    ELSE st

\* `if !parts.is_empty() { all_names.push(Name { parts: take(&mut parts) }) }`
PushName(st) ==
    IF st.parts # <<>>
    THEN [st EXCEPT !.all_names = Append(st.all_names, st.parts), !.parts = <<>>]
    ELSE st

\* The state of split_names before its loop.
SplitStart(input) ==
    [all_names |-> <<>>, part |-> <<>>, parts |-> <<>>, chars |-> input,
     as_active |-> FALSE]

\* The three characters `ahead` yields are 'a', 's', ' '.
AheadIsAs(rest) ==
    /\ Len(rest) >= 3
    /\ rest[1] = "a"
    /\ rest[2] = "s"
    /\ rest[3] = " "

\* One iteration of `while let Some(ch) = chars.next()`; st.chars is not empty.
ScanChar(st) ==
    LET ch == Head(st.chars)
        s1 == [st EXCEPT !.chars = Tail(st.chars)]
    IN  IF ch = "(" \/ ch = ")" THEN s1
        ELSE IF ch = "<" \/ ch = ">" THEN
            IF s1.as_active THEN [s1 EXCEPT !.as_active = FALSE]
            ELSE PushName(PushPart(s1))
        ELSE IF ch = ":" THEN PushPart(s1)
        ELSE IF ch = " " THEN
            IF AheadIsAs(s1.chars)
            THEN PushName(PushPart([s1 EXCEPT !.chars = SubSeq(s1.chars, 4, Len(s1.chars)),
                                              !.as_active = TRUE]))
            ELSE [s1 EXCEPT !.part = Append(s1.part, ch)]
        ELSE [s1 EXCEPT !.part = Append(s1.part, ch)]

\* The code after the loop: flush the trailing part and Name.
SplitFinish(st) == PushName(PushPart(st))

RECURSIVE SplitLoop(_)
SplitLoop(st) ==
    IF st.chars = <<>> THEN SplitFinish(st).all_names ELSE SplitLoop(ScanChar(st))

\* split_names(composite) as a function of its input.
split_names(input) == SplitLoop(SplitStart(input))


(***************************************************************************)
(* config/built_in.rs and the permission table                             *)
(***************************************************************************)
\* A string literal such as "std::os::linux::fs", written by its words.
Lit(ws) == join(ws, cc)

\* perm(include, exclude): each &str becomes a String.
perm(include, exclude) == [include |-> include, exclude |-> exclude]

\* get_built_ins without the exclusions of `process`.
BuiltInsProcessNoExclude ==
    [p \in {"fs", "env", "net", "process", "terminate"} |->
        CASE p = "fs" ->
                perm(<<Lit(<<w_std, w_fs>>), Lit(<<w_std, w_env>>)>>,
                     <<Lit(<<w_std, w_env, w_var>>)>>)
          [] p = "env" -> perm(<<Lit(<<w_std, w_env>>)>>, <<>>)
          [] p = "net" -> perm(<<Lit(<<w_std, w_net>>)>>, <<>>)
          [] p = "process" -> perm(<<Lit(<<w_std, w_process>>)>>, <<>>)
          [] p = "terminate" ->
                perm(<<Lit(<<w_std, w_process, w_abort>>),
                       Lit(<<w_std, w_process, w_exit>>)>>, <<>>)]

\* get_built_ins with "std::os::wasi::io" left out of `fs`.
BuiltInsNoWasiIo ==
    [p \in {"fs", "env", "net", "process", "terminate"} |->
        CASE p = "fs" ->
                perm(<<Lit(<<w_std, w_fs>>),
                       Lit(<<w_std, w_path>>),
                       Lit(<<w_std, w_io>>),
                       Lit(<<w_std, w_os, w_linux, w_fs>>),
                       Lit(<<w_std, w_os, w_unix, w_fs>>),
                       Lit(<<w_std, w_os, w_unix, w_io>>),
                       Lit(<<w_std, w_os, w_wasi, w_fs>>),
                       Lit(<<w_std, w_os, w_windows, w_fs>>),
                       Lit(<<w_std, w_os, w_windows, w_io>>),
                       Lit(<<w_std, w_env>>)>>,
                     <<Lit(<<w_std, w_io, w_stdio>>),
                       Lit(<<w_std, w_env, w_var>>),
                       Lit(<<w_std, w_env, w_var_os>>),
                       Lit(<<w_std, w_env, w_vars>>),
                       Lit(<<w_std, w_env, w_vars_os>>),
                       Lit(<<w_std, w_env, w_args>>)>>)
          [] p = "env" -> perm(<<Lit(<<w_std, w_env>>)>>, <<>>)
          [] p = "net" ->
                perm(<<Lit(<<w_std, w_net>>),
                       Lit(<<w_std, w_os, w_unix, w_net>>),
                       Lit(<<w_std, w_os, w_wasi, w_net>>),
                       Lit(<<w_std, w_os, w_windows, w_net>>)>>, <<>>)
          [] p = "process" ->
                perm(<<Lit(<<w_std, w_process>>),
                       Lit(<<w_std, w_unix, w_process>>),
                       Lit(<<w_std, w_windows, w_process>>)>>,
                     <<Lit(<<w_std, w_process, w_abort>>),
                       Lit(<<w_std, w_process, w_exit>>)>>)
          [] p = "terminate" ->
                perm(<<Lit(<<w_std, w_process, w_abort>>),
                       Lit(<<w_std, w_process, w_exit>>)>>, <<>>)]

\* get_built_ins(): the BTreeMap of the five built-in APIs.
get_built_ins ==
    [p \in {"fs", "env", "net", "process", "terminate"} |->
        CASE p = "fs" ->
                perm(<<Lit(<<w_std, w_fs>>),
                       Lit(<<w_std, w_path>>),
                       Lit(<<w_std, w_io>>),
                       Lit(<<w_std, w_os, w_linux, w_fs>>),
                       Lit(<<w_std, w_os, w_unix, w_fs>>),
                       Lit(<<w_std, w_os, w_unix, w_io>>),
                       Lit(<<w_std, w_os, w_wasi, w_fs>>),
                       Lit(<<w_std, w_os, w_wasi, w_io>>),
                       Lit(<<w_std, w_os, w_windows, w_fs>>),
                       Lit(<<w_std, w_os, w_windows, w_io>>),
                       Lit(<<w_std, w_env>>)>>,
                     <<Lit(<<w_std, w_io, w_stdio>>),
                       Lit(<<w_std, w_env, w_var>>),
                       Lit(<<w_std, w_env, w_var_os>>),
                       Lit(<<w_std, w_env, w_vars>>),
                       Lit(<<w_std, w_env, w_vars_os>>),
                       Lit(<<w_std, w_env, w_args>>)>>)
          [] p = "env" -> perm(<<Lit(<<w_std, w_env>>)>>, <<>>)
          [] p = "net" ->
                perm(<<Lit(<<w_std, w_net>>),
                       Lit(<<w_std, w_os, w_unix, w_net>>),
                       Lit(<<w_std, w_os, w_wasi, w_net>>),
                       Lit(<<w_std, w_os, w_windows, w_net>>)>>, <<>>)
          [] p = "process" ->
                perm(<<Lit(<<w_std, w_process>>),
                       Lit(<<w_std, w_unix, w_process>>),
                       Lit(<<w_std, w_windows, w_process>>)>>,
                     <<Lit(<<w_std, w_process, w_abort>>),
                       Lit(<<w_std, w_process, w_exit>>)>>)
          [] p = "terminate" ->
                perm(<<Lit(<<w_std, w_process, w_abort>>),
                       Lit(<<w_std, w_process, w_exit>>)>>, <<>>)]

RECURSIVE SplitColons(_, _, _)
SplitColons(s, cur, acc) ==
    IF s = <<>> THEN Append(acc, cur)
    ELSE IF Len(s) >= 2 /\ s[1] = ":" /\ s[2] = ":"
    THEN SplitColons(SubSeq(s, 3, Len(s)), <<>>, Append(acc, cur))
    ELSE SplitColons(Tail(s), Append(cur, s[1]), acc)

\* The Name a prefix string of a PermConfig stands for: its `::`-separated
\* components.
PrefixName(s) == SplitColons(s, <<>>, <<>>)

\* A candidate Name matches a PermConfig: it starts with some include prefix and
\* with no exclude prefix.
PermMatches(cfg, name) ==
    /\ \E i \in 1..Len(cfg.include) : starts_with(name, PrefixName(cfg.include[i]))
    /\ ~\E i \in 1..Len(cfg.exclude) : starts_with(name, PrefixName(cfg.exclude[i]))

\* Checker::apis_for_path: every PermissionName whose PermConfig matches.
apis_for_path(tbl, name) == {p \in DOMAIN tbl : PermMatches(tbl[p], name)}

\* ---- the inputs of the permission table
MaxPrefixes == 2
MaxNameLen == 3
MaxExt == 1

SeqsUpTo(S, n) == UNION {[1..k -> S] : k \in 0..n}

\* The prefixes of user-declared configurations.
UserPrefixes ==
    {Lit(<<w_std, w_env>>), Lit(<<w_std, w_env, w_var>>), Lit(<<w_std, w_environment>>)}

\* A user table declares one API.
UserTables ==
    {[p \in {"user"} |-> perm(inc, exc)] :
        inc \in SeqsUpTo(UserPrefixes, MaxPrefixes),
        exc \in SeqsUpTo(UserPrefixes, MaxPrefixes)}

UserCands == SeqsUpTo({w_std, w_env, w_environment, w_var}, MaxNameLen)

\* Candidate Names for the built-in table: every built-in prefix and some
\* neighbours, each extended by up to MaxExt further components.
BuiltInCands ==
    LET bases ==
            UNION {{PrefixName(get_built_ins[p].include[i]) :
                        i \in 1..Len(get_built_ins[p].include)}
                    \cup {PrefixName(get_built_ins[p].exclude[i]) :
                        i \in 1..Len(get_built_ins[p].exclude)} : p \in DOMAIN get_built_ins}
                \cup {<<w_std>>, <<w_std, w_os>>, <<w_std, w_environment>>,
                      <<w_std, w_os, w_linux, w_io>>, <<w_std, w_os, w_linux>>,
                      <<w_std, w_env, w_current_dir>>, <<w_core, w_fmt>>,
                      <<w_std, w_process, w_x>>}
    IN  {b \o e : b \in bases, e \in SeqsUpTo({w_x, w_var, w_exit}, MaxExt)}

NoObject == "none"
NoEvent == [kind |-> "none"]

ScanIdle ==
    /\ spc = "idle"
    /\ api_usages = <<>>
    /\ path_i = 0
    /\ in_archive = FALSE
    /\ entry_i = 0
    /\ obj = NoObject
    /\ section_index_to_symbol = <<>>
    /\ sec_i = 0
    /\ nrel = 0
    /\ scan_error = ""
    /\ origin = <<>>
    /\ ev = NoEvent

NamesIdle ==
    /\ composite = <<>>
    /\ chars = <<>>
    /\ part = <<>>
    /\ parts = <<>>
    /\ all_names = <<>>
    /\ as_active = FALSE
    /\ npc = "idle"

PermIdle ==
    /\ table = <<>>
    /\ cand = <<>>
    /\ apis = {}
    /\ ppc = "idle"

NoWrite == [kind |-> "none"]

RpcIdle ==
    /\ rpc_queue = <<>>
    /\ stream = <<>>
    /\ rpc_sent = <<>>
    /\ rpc_write = NoWrite
    /\ rpc_read = <<>>

NoKey == [kind |-> "none"]

UiIdle ==
    /\ upc = "idle"
    /\ qi = 0
    /\ quit_requested = FALSE
    /\ error = FALSE
    /\ needs_redraw = FALSE
    /\ events = <<>>
    /\ sender_alive = FALSE
    /\ nevents = 0
    /\ store_lock = "free"
    /\ nlocks = 0
    /\ store_aborted = FALSE
    /\ abort_sent = 0
    /\ terminal = FALSE
    /\ quit_ops = <<>>
    /\ ui_key = NoKey
    /\ ui_exit = "none"

CounterIdle ==
    /\ cpc = "idle"
    /\ list_len = 0
    /\ row = 0
    /\ checks = FALSE
    /\ counter_start = 0
    /\ counter_keys = <<>>

\* Nothing but the operation under study is running.
RestIdle == RpcIdle /\ UiIdle /\ CounterIdle

PermInit ==
    /\ NamesIdle
    /\ ScanIdle
    /\ RestIdle
    /\ \/ table = get_built_ins /\ cand \in BuiltInCands
       \/ table \in UserTables /\ cand \in UserCands
    /\ apis = {}
    /\ ppc = "call"

\* One call of apis_for_path(cand) on the table.
ApisForPath ==
    /\ ppc = "call"
    /\ apis' = apis_for_path(table, cand)
    /\ ppc' = "done"
    /\ UNCHANGED <<table, cand>>
    /\ UNCHANGED namesVars
    /\ UNCHANGED scanVars
    /\ UNCHANGED restVars

PermNext == ApisForPath

SpecPerm == PermInit /\ [][PermNext]_vars

\* ---- the inputs of the parser
MaxLen == 5
Alphabet == {"a", "s", " ", ":", "<", ">", "("}

\* "core::ptr::drop_in_place<std::rt::lang_start<()>::{{closure}}>"
DropInPlace ==
    Concat(<<w_core, cc, w_ptr, cc, w_drop_in_place, lt, w_std, cc, w_rt, cc,
             w_lang_start, lt, <<"(", ")">>, gt, cc, w_closure, gt>>)

\* "<alloc::string::String as core::fmt::Debug>::fmt"
StringAsDebug ==
    Concat(<<lt, w_alloc, cc, w_string, cc, w_String, sp_as_sp, w_core, cc, w_fmt,
             cc, w_Debug, gt, cc, w_fmt>>)

\* "<a as s<a>>::m": a trait with a generic argument after ` as `
NestedAs ==
    Concat(<<lt, w_a, sp_as_sp, w_s, lt, w_a, gt, gt, cc, w_m>>)

Composites ==
    UNION {[1..n -> Alphabet] : n \in 0..MaxLen}
        \cup {DropInPlace, StringAsDebug, NestedAs}

SplitState ==
    [all_names |-> all_names, part |-> part, parts |-> parts, chars |-> chars,
     as_active |-> as_active]

SetSplitState(st) ==
    /\ all_names' = st.all_names
    /\ part' = st.part
    /\ parts' = st.parts
    /\ chars' = st.chars
    /\ as_active' = st.as_active

NamesInit ==
    /\ PermIdle
    /\ ScanIdle
    /\ RestIdle
    /\ composite \in Composites
    /\ chars = composite
    /\ part = <<>>
    /\ parts = <<>>
    /\ all_names = <<>>
    /\ as_active = FALSE
    /\ npc = "loop"

\* One iteration of the loop of split_names.
SplitStep ==
    /\ npc = "loop"
    /\ chars # <<>>
    /\ SetSplitState(ScanChar(SplitState))
    /\ UNCHANGED <<composite, npc>>
    /\ UNCHANGED permVars
    /\ UNCHANGED scanVars
    /\ UNCHANGED restVars

\* The iterator is exhausted: flush and return all_names.
SplitReturn ==
    /\ npc = "loop"
    /\ chars = <<>>
    /\ SetSplitState(SplitFinish(SplitState))
    /\ npc' = "done"
    /\ UNCHANGED composite
    /\ UNCHANGED permVars
    /\ UNCHANGED scanVars
    /\ UNCHANGED restVars

NamesNext == SplitStep \/ SplitReturn

SpecNames == NamesInit /\ [][NamesNext]_vars

(***************************************************************************)
(* symbol_graph.rs                                                         *)
(***************************************************************************)
None == [some |-> FALSE]
Some(v) == [some |-> TRUE, v |-> v]
Ok(v) == [ok |-> TRUE, v |-> v]
Err(msg) == [ok |-> FALSE, err |-> msg]

\* ---- std::path::Path
RECURSIVE SplitSlash(_, _, _)
SplitSlash(s, cur, acc) ==
    IF s = <<>> THEN Append(acc, cur)
    ELSE IF s[1] = "/" THEN SplitSlash(Tail(s), <<>>, Append(acc, cur))
    ELSE SplitSlash(Tail(s), Append(cur, s[1]), acc)

\* Path::components(): the root, if the path is absolute, then the non-empty
\* pieces between separators (`.` pieces after the first are dropped).
Components(path) ==
    LET pieces == SplitSlash(path, <<>>, <<>>)
        keep(k) == pieces[k] # <<>> /\ (pieces[k] = <<".">> => k = 1)
        idx == SelectSeq([k \in 1..Len(pieces) |-> k], keep)
        normal == [k \in 1..Len(idx) |-> pieces[idx[k]]]
    IN  IF path # <<>> /\ path[1] = "/" THEN <<slash>> \o normal ELSE normal

\* Path::starts_with: base's components are the first components of path.
PathStartsWith(path, base) == IsPrefix(Components(base), Components(path))

RustcPrefix == Concat(<<slash, w_rustc, slash>>)
CargoRegistryPrefix == Concat(<<slash, w_cargo, slash, w_registry>>)

\* Path::extension(): the text after the last `.` of the file name, if the file
\* name has a `.` that is not its first character.
Extension(filename) ==
    LET comps == Components(filename)
        name == IF comps = <<>> THEN <<>> ELSE comps[Len(comps)]
        dots == {k \in 2..Len(name) : name[k] = "."}
    IN  IF name = slash \/ dots = {} THEN None
        ELSE LET last == CHOOSE k \in dots : \A j \in dots : j <= k
             IN  Some(SubSeq(name, last + 1, Len(name)))

\* Filetype::from_filename
from_filename(filename) ==
    LET extension == Extension(filename)
    IN  IF ~extension.some THEN "Other"
        ELSE IF extension.v = w_rlib \/ extension.v = w_dot_a THEN "Archive"
        ELSE "Other"

\* ---- the linked binary
\* Symbols and source paths are held by name; SymbolText and PathText give
\* their characters.
S_main == "alpha::main"
S_dbinit == "alpha::db::init"
S_local == "gamma::local"
T_fs == "std::fs::read"
T_multi == "<alpha::db::Conn as std::env::Vars>::x"
\* A symbol whose bytes are not text.
InvalidUtf8 == "0xFF"
\* The empty name.
Unnamed == ""

SymbolText(symbol) ==
    CASE symbol = S_main -> Lit(<<w_alpha, w_main>>)
      [] symbol = S_dbinit -> Lit(<<w_alpha, w_db, w_init>>)
      [] symbol = S_local -> Lit(<<w_gamma, w_local>>)
      [] symbol = T_fs -> Lit(<<w_std, w_fs, w_read>>)
      [] symbol = T_multi ->
            Concat(<<lt, Lit(<<w_alpha, w_db, w_Conn>>), sp_as_sp,
                     Lit(<<w_std, w_env, w_Vars>>), gt, cc, w_x>>)
      [] OTHER -> <<>>

P_main == "/src/main.rs"
P_shared == "/src/shared.rs"
P_gen == "/src/gen.rs"
P_rustc == "/rustc/x/lib.rs"
P_registry == "/cargo/registry/lib.rs"
P_registryx == "/cargo/registryx/lib.rs"

PathText(path) ==
    CASE path = P_main -> Concat(<<slash, w_src, slash, w_main_rs>>)
      [] path = P_shared -> Concat(<<slash, w_src, slash, w_shared_rs>>)
      [] path = P_gen -> Concat(<<slash, w_src, slash, w_gen_rs>>)
      [] path = P_rustc -> Concat(<<slash, w_rustc, slash, w_x, slash, w_lib_rs>>)
      [] path = P_registry -> Concat(<<slash, w_cargo, slash, w_registry, slash, w_lib_rs>>)
      [] path = P_registryx ->
            Concat(<<slash, w_cargo, slash, w_registryx, slash, w_lib_rs>>)

\* The test of lines 169-170 never taken.
IsVendorNever(source_filename) == FALSE

\* source_filename.starts_with("/rustc/") || source_filename.starts_with("/cargo/registry")
IsVendor(source_filename) ==
    \/ PathStartsWith(PathText(source_filename), RustcPrefix)
    \/ PathStartsWith(PathText(source_filename), CargoRegistryPrefix)

\* The symbol table of the linked binary, in order.
ExeSymbols ==
    <<[name |-> S_dbinit, address |-> 9], [name |-> S_main, address |-> 0],
      [name |-> S_dbinit, address |-> 5]>>

RECURSIVE LoadLoop(_, _)
LoadLoop(symbols, map) ==
    IF symbols = <<>> THEN map
    ELSE LoadLoop(Tail(symbols),
                  [n \in DOMAIN map \cup {Head(symbols).name} |->
                      IF n = Head(symbols).name THEN Head(symbols).address ELSE map[n]])

\* ExeInfo::load_symbols: symbol_addresses.insert(name, address) for each symbol.
symbol_addresses == LoadLoop(ExeSymbols, <<>>)

\* The line table of the linked binary: what find_location(address) returns.
ExeDwarf ==
    <<Ok(Some([file |-> Some(P_rustc)])),
      Ok(None),
      Err("find_location failed"),
      Ok(Some([file |-> Some(P_shared)])),
      Ok(Some([file |-> None])),
      Ok(Some([file |-> Some(P_registry)])),
      Ok(Some([file |-> Some(P_registryx)])),
      Ok(Some([file |-> Some(P_gen)])),
      Ok(Some([file |-> Some(P_main)]))>>

\* ctx.find_location(address): address 0 is the first entry of the table.
find_location(address) ==
    IF address = 0 THEN Ok(Some([file |-> Some(P_main)]))
    ELSE IF address \in DOMAIN ExeDwarf THEN ExeDwarf[address]
    ELSE Ok(None)

\* checker.crate_names_from_source_path(source_path, object_path)
crate_names_from_source_path(source_filename) ==
    IF source_filename = P_main THEN Ok(<<w_alpha>>)
    ELSE IF source_filename = P_shared THEN Ok(<<w_alpha, w_beta>>)
    ELSE IF source_filename = P_registryx THEN Ok(<<w_beta>>)
    ELSE IF source_filename = P_registry THEN Ok(<<w_gamma>>)
    ELSE IF source_filename = P_gen THEN Err("crate_names_from_source_path failed")
    ELSE Ok(<<>>)

\* Symbol::parts(): the Names the symbol decodes to.
SymbolParts(symbol) ==
    IF symbol = InvalidUtf8 THEN Err("symbol is not text")
    ELSE Ok(split_names(SymbolText(symbol)))

\* The checker's table: the built-ins and one user-declared API.
ScanTable ==
    [p \in DOMAIN get_built_ins \cup {"alpha_db"} |->
        IF p = "alpha_db" THEN perm(<<Lit(<<w_alpha, w_db>>)>>, <<>>) ELSE get_built_ins[p]]

\* PermissionNames in their order (Ord for PermissionName).
PermissionOrder == <<"alpha_db", "env", "fs", "net", "process", "terminate", "user">>

\* The PermissionNames of apis_for_path(name) in iteration order.
ApisInOrder(tbl, name) ==
    LET hit(p) == p \in apis_for_path(tbl, name) IN SelectSeq(PermissionOrder, hit)

\* ---- object files
\* Two unlinked object files.
ObjectA ==
    [symbols |->
        <<[name |-> S_main, address |-> 0, section |-> Some(0)],
          [name |-> T_fs, address |-> 0, section |-> None],
          [name |-> Unnamed, address |-> 0, section |-> Some(1)],
          [name |-> S_dbinit, address |-> 0, section |-> Some(1)],
          [name |-> Unnamed, address |-> 0, section |-> Some(2)],
          [name |-> T_multi, address |-> 0, section |-> None]>>,
     nsections |-> 3]

ObjectB ==
    [symbols |->
        <<[name |-> S_main, address |-> 0, section |-> Some(0)],
          [name |-> S_dbinit, address |-> 0, section |-> Some(0)],
          [name |-> Unnamed, address |-> 0, section |-> None],
          [name |-> Unnamed, address |-> 0, section |-> Some(9)],
          [name |-> InvalidUtf8, address |-> 0, section |-> None],
          [name |-> S_local, address |-> 0, section |-> Some(1)],
          [name |-> S_main, address |-> 8, section |-> Some(1)]>>,
     nsections |-> 2]

\* The parsed files, by name.
Objects == {"A", "B"}
ObjectFile(o) == IF o = "A" THEN ObjectA ELSE ObjectB

\* What reading a file or an archive entry can give.
Bytes(kinds) ==
    {[kind |-> k] : k \in kinds} \cup {[kind |-> "object", object |-> o] : o \in Objects}

RECURSIVE IndexLoop(_, _)
IndexLoop(symbols, first_symbol_by_section) ==
    IF symbols = <<>> THEN first_symbol_by_section
    ELSE LET symbol == Head(symbols)
         IN  IF symbol.address # 0 \/ symbol.name = Unnamed \/ ~symbol.section.some
             THEN IndexLoop(Tail(symbols), first_symbol_by_section)
             ELSE IndexLoop(Tail(symbols),
                            [first_symbol_by_section EXCEPT
                                ![symbol.section.v + 1] = Some(symbol.name)])

\* ObjectIndex::new; entry k + 1 of the result is the slot of section k.
ObjectIndexNew(o) ==
    LET max_section_index == IF o.nsections = 0 THEN 0 ELSE o.nsections - 1
    IN  IndexLoop(o.symbols, [k \in 1..(max_section_index + 1) |-> None])

\* An unnamed symbol resolving to no symbol, whatever its section.
target_symbol_no_fallback(o, index, rel) ==
    IF rel.target.kind # "Symbol" THEN Err("Unsupported relocation kind")
    ELSE IF rel.target.index + 1 \notin DOMAIN o.symbols
    THEN Err("Invalid symbol index in object file")
    ELSE LET symbol == o.symbols[rel.target.index + 1]
         IN  IF symbol.name # Unnamed THEN Ok(Some(symbol.name)) ELSE Ok(None)

\* ObjectIndex::target_symbol
target_symbol(o, index, rel) ==
    IF rel.target.kind # "Symbol" THEN Err("Unsupported relocation kind")
    ELSE IF rel.target.index + 1 \notin DOMAIN o.symbols
    THEN Err("Invalid symbol index in object file")
    ELSE LET symbol == o.symbols[rel.target.index + 1]
         IN  IF symbol.name # Unnamed THEN Ok(Some(symbol.name))
             ELSE IF ~symbol.section.some
             THEN Err("Relocation target has empty name and no section index")
             ELSE IF symbol.section.v + 1 \notin DOMAIN index
             THEN Err("Unnamed symbol has invalid section index")
             ELSE Ok(index[symbol.section.v + 1])

\* The test of lines 181-184 never taken.
SamePackageNever(crate_name, name_parts) == FALSE

\* name_parts.first().map(|name_start| crate_name.as_ref() == name_start).unwrap_or(false)
SamePackage(crate_name, name_parts) ==
    IF name_parts = <<>> THEN FALSE ELSE crate_name = name_parts[1]

RECURSIVE NameLoop(_, _, _, _, _)
\* `for name_parts in target_symbol.parts()?` for one crate.
NameLoop(tbl, crate_name, ci, names, ni) ==
    IF ni > Len(names) THEN <<>>
    ELSE LET name_parts == names[ni]
             perms == ApisInOrder(tbl, name_parts)
             here ==
                IF SamePackage(crate_name, name_parts) THEN <<>>
                ELSE [k \in 1..Len(perms) |->
                        [crate_name |-> crate_name, ci |-> ci, ni |-> ni,
                         name_parts |-> name_parts, permission |-> perms[k]]]
         IN  here \o NameLoop(tbl, crate_name, ci, names, ni + 1)

RECURSIVE CrateLoopReversed(_, _, _, _)
\* The crate loop walking crate_names from its last element.
CrateLoopReversed(tbl, crate_names, ci, names) ==
    IF ci > Len(crate_names) THEN <<>>
    ELSE CrateLoopReversed(tbl, crate_names, ci + 1, names)
            \o NameLoop(tbl, crate_names[ci], ci, names, 1)

RECURSIVE CrateLoop(_, _, _, _)
\* `for crate_name in crate_names`
CrateLoop(tbl, crate_names, ci, names) ==
    IF ci > Len(crate_names) THEN <<>>
    ELSE NameLoop(tbl, crate_names[ci], ci, names, 1)
            \o CrateLoop(tbl, crate_names, ci + 1, names)

\* A missing file taken for the first file of the line table.
SourceFilenameOrFirst(location) ==
    IF ~location.some \/ ~location.v.file.some THEN Some(P_main) ELSE location.v.file

\* `location.and_then(|l| l.file)`
SourceFilename(location) ==
    IF ~location.some THEN None ELSE location.v.file

\* The ApiUsage pushed at lines 192-204.
ApiUsageOf(e, source_filename, from, to) ==
    [crate_name |-> e.crate_name,
     usages |-> (e.permission :>
                    <<[location |-> [filename |-> source_filename],
                       from |-> from, to |-> to]>>)]

\* The body of `for (offset, rel) in section.relocations()`: whether it returns
\* an error ("err") or goes on to the next relocation ("continue") having
\* appended `emitted` (the pushes of lines 201-204 in order), with the values of
\* its locals `location` and `target_symbol`.
ProcessRelocation(tbl, o, index, section_start_symbol, offset, rel) ==
    LET section_start_in_exe == symbol_addresses[section_start_symbol]
        location == find_location(section_start_in_exe + offset)
        target == target_symbol(o, index, rel)
        out(status, emitted, err, source_filename, to) ==
            [status |-> status, emitted |-> emitted, err |-> err,
             location |-> location,
             target |-> IF ~location.ok THEN "unevaluated"
                        ELSE IF ~target.ok THEN "err"
                        ELSE IF target.v.some THEN target.v.v ELSE "none",
             source_filename |-> source_filename, to |-> to]
        skip == out("continue", <<>>, "", "", "")
        fail(msg) == out("err", <<>>, msg, "", "")
    IN  IF ~location.ok THEN fail("find_location failed")
        ELSE IF ~target.ok THEN fail(target.err)
        ELSE IF ~target.v.some THEN skip
        ELSE IF ~SourceFilename(location.v).some THEN skip
        ELSE LET source_filename == SourceFilename(location.v).v
                 crate_names == crate_names_from_source_path(source_filename)
                 names == SymbolParts(target.v.v)
             IN  IF IsVendor(source_filename) THEN skip
                 ELSE IF ~crate_names.ok THEN fail(crate_names.err)
                 ELSE IF crate_names.v = <<>> THEN skip
                 ELSE IF ~names.ok THEN fail(names.err)
                 ELSE out("continue", CrateLoop(tbl, crate_names.v, 1, names.v), "",
                          source_filename, target.v.v)

\* ---- the inputs of a scan
\* Files and archive entries one scan reads, and relocations it walks.
MaxInputs == 3
MaxRelocs == 2

\* Offsets that reach every entry of the line table from either section start.
Offsets == 0..(symbol_addresses[S_dbinit] - 1)

\* Symbol indices of relocation targets: those of ObjectA and one past them.
TargetIndexes == 0..Len(ObjectA.symbols)

\* "lib.rlib", "lib.a", "main.o", "out"
FileNames ==
    {Concat(<<w_lib_rs, <<".">>, w_rlib>>), Concat(<<w_x, w_dot_a>>),
     Concat(<<slash, w_src, slash, w_main, <<".", "o">>>>), w_main}

Relocations ==
    {[offset |-> off, target |-> t] :
        off \in Offsets,
        t \in {[kind |-> "Section"]}
                \cup {[kind |-> "Symbol", index |-> i] : i \in TargetIndexes}}

\* The section's defining symbol, if the section loop walks its relocations
\* (lines 145-153).
SectionStart(index, sec) ==
    IF sec + 1 \in DOMAIN index /\ index[sec + 1].some
            /\ index[sec + 1].v \in DOMAIN symbol_addresses
    THEN index[sec + 1]
    ELSE None

\* ProcessRelocation for every relocation of every walked section of the two
\* objects, under the checker's table (which no scan changes).
RelocationOutcome ==
    [o \in Objects |->
        [sec \in 0..(ObjectFile(o).nsections - 1) |->
            [rel \in Relocations |->
                LET index == ObjectIndexNew(ObjectFile(o))
                    start == SectionStart(index, sec)
                IN  IF start.some
                    THEN ProcessRelocation(ScanTable, ObjectFile(o), index, start.v,
                                           rel.offset, rel)
                    ELSE [status |-> "unreached"]]]]

ScanInit ==
    /\ NamesIdle
    /\ PermIdle
    /\ RestIdle
    /\ spc = "start"
    /\ api_usages = <<>>
    /\ path_i = 0
    /\ in_archive = FALSE
    /\ entry_i = 0
    /\ obj = NoObject
    /\ section_index_to_symbol = <<>>
    /\ sec_i = 0
    /\ nrel = 0
    /\ scan_error = ""
    /\ origin = <<>>
    /\ ev = NoEvent

ScanKeep == UNCHANGED <<namesVars, permVars, restVars>>

\* `return Err(..)`: scan_objects ends, graph is dropped.
Fail(msg) ==
    /\ spc' = "err"
    /\ scan_error' = msg
    /\ UNCHANGED <<api_usages, origin, path_i, in_archive, entry_i, obj,
                   section_index_to_symbol, sec_i, nrel>>

\* process_object_file_bytes begins on bytes that parse as object o.
EnterObject(o, archive) ==
    /\ obj' = o
    /\ section_index_to_symbol' = ObjectIndexNew(ObjectFile(o))
    /\ sec_i' = 0
    /\ in_archive' = archive
    /\ spc' = "sections"
    /\ UNCHANGED <<api_usages, origin, nrel, scan_error>>

\* Lines 74-84: read and parse the linked binary, load DWARF and symbols.
ScanStart ==
    /\ spc = "start"
    /\ \E exe \in {"ok", "unreadable", "malformed", "bad_symbol_name"} :
        /\ ev' = [kind |-> "exe", exe |-> exe]
        /\ IF exe = "ok"
           THEN /\ spc' = "paths"
                /\ UNCHANGED <<api_usages, origin, path_i, in_archive, entry_i, obj,
                               section_index_to_symbol, sec_i, nrel, scan_error>>
           ELSE Fail("Failed to load the linked binary")
    /\ ScanKeep

\* `for path in paths` is exhausted: Ok(graph.outputs).
PathsDone ==
    /\ spc = "paths"
    /\ spc' = "ok"
    /\ ev' = [kind |-> "end_paths"]
    /\ UNCHANGED <<api_usages, origin, path_i, in_archive, entry_i, obj,
                   section_index_to_symbol, sec_i, nrel, scan_error>>
    /\ ScanKeep

\* process_file on the next path, up to the first object or archive entry.
NextPath ==
    /\ spc = "paths"
    /\ path_i + entry_i < MaxInputs
    /\ \E filename \in FileNames,
          bytes \in Bytes({"unreadable", "malformed"}) :
        LET filetype == from_filename(filename)
        IN  /\ ev' = [kind |-> "file", filetype |-> filetype, bytes |-> bytes.kind]
            /\ IF filetype = "Archive"
               THEN IF bytes.kind = "unreadable"
                    THEN Fail("File::open failed")
                    ELSE /\ spc' = "archive"
                         /\ in_archive' = TRUE
                         /\ UNCHANGED <<api_usages, origin, path_i, entry_i, obj,
                                        section_index_to_symbol, sec_i, nrel,
                                        scan_error>>
               ELSE IF bytes.kind = "unreadable" THEN Fail("Failed to read")
               ELSE IF bytes.kind = "malformed" THEN Fail("Failed to parse")
               ELSE /\ EnterObject(bytes.object, FALSE)
                    /\ UNCHANGED <<path_i, entry_i>>
    /\ ScanKeep

\* Every entry that is no object skipped.
EntryStepSkipsAll(entry) ==
    IF entry.kind = "object" THEN "process" ELSE "continue"

\* What lines 117-120 do with an entry: `continue` if next_entry gave an Err,
\* `?` if its body cannot be read or does not parse, else its sections.
EntryStep(entry) ==
    IF entry.kind = "header_err" THEN "continue"
    ELSE IF entry.kind = "read_err" THEN "read_to_end failed"
    ELSE IF entry.kind = "malformed" THEN "Failed to parse"
    ELSE "process"

\* One iteration of `while let Some(entry_result) = archive.next_entry()`, up to
\* the entry's first section; or the end of the archive.
NextEntry ==
    /\ spc = "archive"
    /\ \/ /\ ev' = [kind |-> "end_archive"]
          /\ spc' = "paths"
          /\ path_i' = path_i + 1
          /\ in_archive' = FALSE
          /\ UNCHANGED <<api_usages, origin, entry_i, obj, section_index_to_symbol,
                         sec_i, nrel, scan_error>>
       \/ /\ path_i + 1 + entry_i < MaxInputs
          /\ \E entry \in Bytes({"header_err", "read_err", "malformed"}) :
                /\ ev' = [kind |-> "entry", entry |-> entry.kind,
                          before |-> Len(api_usages)]
                /\ IF EntryStep(entry) = "continue"
                   THEN /\ entry_i' = entry_i + 1
                        /\ UNCHANGED <<spc, api_usages, origin, path_i, in_archive, obj,
                                       section_index_to_symbol, sec_i, nrel,
                                       scan_error>>
                   ELSE IF EntryStep(entry) # "process" THEN Fail(EntryStep(entry))
                   ELSE /\ EnterObject(entry.object, TRUE)
                        /\ entry_i' = entry_i + 1
                        /\ UNCHANGED path_i
    /\ ScanKeep

\* One iteration of `for section in obj.sections()`, up to its first
\* relocation; or the end of process_object_file_bytes.
NextSection ==
    /\ spc = "sections"
    /\ ev' = [kind |-> "section"]
    /\ IF sec_i >= ObjectFile(obj).nsections
       THEN /\ spc' = IF in_archive THEN "archive" ELSE "paths"
            /\ path_i' = IF in_archive THEN path_i ELSE path_i + 1
            /\ UNCHANGED sec_i
       ELSE IF SectionStart(section_index_to_symbol, sec_i).some
            THEN /\ spc' = "relocs"
                              /\ UNCHANGED <<sec_i, path_i>>
            ELSE /\ sec_i' = sec_i + 1
                 /\ UNCHANGED <<spc, path_i>>
    /\ UNCHANGED <<api_usages, origin, in_archive, entry_i, obj,
                   section_index_to_symbol, nrel, scan_error>>
    /\ ScanKeep

\* `for (offset, rel) in section.relocations()` is exhausted.
RelocsDone ==
    /\ spc = "relocs"
    /\ ev' = [kind |-> "end_relocs"]
    /\ spc' = "sections"
    /\ sec_i' = sec_i + 1
    /\ UNCHANGED <<api_usages, origin, path_i, in_archive, entry_i, obj,
                   section_index_to_symbol, nrel, scan_error>>
    /\ ScanKeep

\* One iteration of `for (offset, rel) in section.relocations()`.
NextReloc ==
    /\ spc = "relocs"
    /\ nrel < MaxRelocs
    /\ \E rel \in Relocations :
        LET r == RelocationOutcome[obj][sec_i][rel]
        IN  /\ ev' = [kind |-> "reloc", rel |-> rel.target, location |-> r.location,
                      target |-> r.target, before |-> Len(api_usages)]
            /\ IF r.status = "err"
               THEN Fail(r.err)
               ELSE /\ api_usages' = api_usages \o
                        [k \in 1..Len(r.emitted) |->
                            ApiUsageOf(r.emitted[k], r.source_filename,
                                       section_index_to_symbol[sec_i + 1].v, r.to)]
                    /\ origin' = origin \o
                        [k \in 1..Len(r.emitted) |->
                            [path |-> path_i, entry |-> entry_i, section |-> sec_i,
                             reloc |-> nrel, crate |-> r.emitted[k].ci,
                             name |-> r.emitted[k].ni,
                             permission |-> r.emitted[k].permission]]
                    /\ nrel' = nrel + 1
                    /\ UNCHANGED <<spc, path_i, in_archive, entry_i, obj,
                                   section_index_to_symbol, sec_i, scan_error>>
    /\ ScanKeep

ScanNext ==
    \/ ScanStart
    \/ PathsDone
    \/ NextPath
    \/ NextEntry
    \/ NextSection
    \/ RelocsDone
    \/ NextReloc

SpecScan == ScanInit /\ [][ScanNext]_vars

(***************************************************************************)
(* proxy/rpc.rs                                                            *)
(***************************************************************************)
\* Bytes are numbers 0..255. A char is the tuple of its UTF-8 bytes, a String
\* a sequence of chars, a PathBuf a sequence of bytes (any bytes, as on Unix).
c_a == <<97>>
c_quote == <<34>>
c_backslash == <<92>>
c_newline == <<10>>
c_e_acute == <<195, 169>>
b_slash == 47
b_invalid == 255
b_continuation == 169

\* std::mem::size_of::<usize>()
UsizeBytes == 8

\* The pieces of text serde_json writes around the values of a Request.
J_open_RustcStarted == <<123, 34, 82, 117, 115, 116, 99, 83, 116, 97, 114, 116, 101, 100, 34, 58>>    \* {"RustcStarted":
J_open_RustcComplete == <<123, 34, 82, 117, 115, 116, 99, 67, 111, 109, 112, 108, 101, 116, 101, 34, 58, 123, 34, 99, 114, 97, 116, 101, 95, 110, 97, 109, 101, 34, 58>>    \* {"RustcComplete":{"crate_name":
J_source_paths == <<44, 34, 115, 111, 117, 114, 99, 101, 95, 112, 97, 116, 104, 115, 34, 58, 91>>    \* ,"source_paths":[
J_close_RustcComplete == <<93, 125, 125>>    \* ]}}
J_open_CrateUsesUnsafe == <<123, 34, 67, 114, 97, 116, 101, 85, 115, 101, 115, 85, 110, 115, 97, 102, 101, 34, 58, 123, 34, 99, 114, 97, 116, 101, 95, 110, 97, 109, 101, 34, 58>>    \* {"CrateUsesUnsafe":{"crate_name":
J_error_info == <<44, 34, 101, 114, 114, 111, 114, 95, 105, 110, 102, 111, 34, 58, 123, 34, 102, 105, 108, 101, 95, 110, 97, 109, 101, 34, 58>>    \* ,"error_info":{"file_name":
J_start_line == <<44, 34, 115, 116, 97, 114, 116, 95, 108, 105, 110, 101, 34, 58>>    \* ,"start_line":
J_close_CrateUsesUnsafe == <<125, 125, 125>>    \* }}}
J_close == <<125>>    \* }
J_comma == <<44>>    \* ,

\* std::str::from_utf8 / Path::to_str: the chars of `bytes`, if they are UTF-8:
\* every byte is ASCII, or the first of two bytes whose second is a
\* continuation byte, or that second byte (no longer sequence is among the
\* inputs).
from_utf8(bytes) ==
    LET n == Len(bytes)
        IsLead(x) == x >= 194 /\ x <= 223
        IsContinuation(x) == x >= 128 /\ x <= 191
        valid(i) ==
            \/ bytes[i] < 128
            \/ IsLead(bytes[i]) /\ i < n /\ IsContinuation(bytes[i + 1])
            \/ IsContinuation(bytes[i]) /\ i > 1 /\ IsLead(bytes[i - 1])
        first(i) == ~IsContinuation(bytes[i])
        starts == SelectSeq([i \in 1..n |-> i], first)
    IN  IF \A i \in 1..n : valid(i)
        THEN Some([k \in 1..Len(starts) |->
                    IF bytes[starts[k]] < 128 THEN <<bytes[starts[k]]>>
                    ELSE <<bytes[starts[k]], bytes[starts[k] + 1]>>])
        ELSE None

\* String::as_bytes
as_bytes(s) == Concat(s)

\* The escape of a char with the backslash itself left as it is.
EscapeCharNoBackslash(c) ==
    IF c = c_quote THEN <<92, 34>>
    ELSE IF c = c_newline THEN <<92, 110>>
    ELSE c

\* serde_json's escape of one char of a string.
EscapeChar(c) ==
    IF c = c_quote THEN <<92, 34>>
    ELSE IF c = c_backslash THEN <<92, 92>>
    ELSE IF c = c_newline THEN <<92, 110>>
    ELSE c

\* Serialize for str: the escaped chars between quotes.
JsonString(s) ==
    <<34>> \o Concat([i \in 1..Len(s) |-> EscapeChar(s[i])]) \o <<34>>

\* Serialize for Path: the path as a str, or an error if it is not UTF-8.
JsonPath(p) ==
    IF from_utf8(p).some THEN Ok(JsonString(from_utf8(p).v))
    ELSE Err("path contains invalid UTF-8 characters")

RECURSIVE JsonNumber(_)
\* Serialize for an unsigned integer: its decimal digits.
JsonNumber(n) ==
    IF n < 10 THEN <<48 + n>> ELSE JsonNumber(n \div 10) \o <<48 + (n % 10)>>

RECURSIVE JsonPaths(_)
\* Serialize for Vec<PathBuf>: the elements, comma-separated.
JsonPaths(ps) ==
    IF ps = <<>> THEN Ok(<<>>)
    ELSE LET first == JsonPath(ps[1])
             rest == JsonPaths(Tail(ps))
         IN  IF ~first.ok THEN first
             ELSE IF ~rest.ok THEN rest
             ELSE IF Len(ps) = 1 THEN first
             ELSE Ok(first.v \o J_comma \o rest.v)

\* serde_json::to_string(&Request)
to_string(m) ==
    IF m.variant = "RustcStarted"
    THEN Ok(J_open_RustcStarted \o JsonString(m.v) \o J_close)
    ELSE IF m.variant = "RustcComplete"
    THEN LET paths == JsonPaths(m.v.source_paths)
         IN  IF ~paths.ok THEN paths
             ELSE Ok(J_open_RustcComplete \o JsonString(m.v.crate_name)
                        \o J_source_paths \o paths.v \o J_close_RustcComplete)
    ELSE LET file_name == JsonPath(m.v.error_info.file_name)
         IN  IF ~file_name.ok THEN file_name
             ELSE Ok(J_open_CrateUsesUnsafe \o JsonString(m.v.crate_name)
                        \o J_error_info \o file_name.v
                        \o J_start_line \o JsonNumber(m.v.error_info.start_line)
                        \o J_close_CrateUsesUnsafe)

RECURSIVE to_le_bytes(_, _)
\* usize::to_le_bytes: the least significant byte first.
to_le_bytes(n, width) ==
    IF width = 0 THEN <<>> ELSE <<n % 256>> \o to_le_bytes(n \div 256, width - 1)

RECURSIVE from_le_bytes(_)
\* usize::from_le_bytes
from_le_bytes(bytes) ==
    IF bytes = <<>> THEN 0 ELSE bytes[1] + 256 * from_le_bytes(Tail(bytes))

\* F of the value of v, v being computed once.
Let(v, F(_)) == CHOOSE r \in {F(x) : x \in {v}} : TRUE

\* write_to_stream: Err and nothing written if to_string fails, else the
\* length of the text and the text.
write_to_stream(value) ==
    Let(to_string(value),
        LAMBDA serialized :
            IF ~serialized.ok THEN serialized
            ELSE Ok(to_le_bytes(Len(serialized.v), UsizeBytes) \o serialized.v))

\* ---- serde_json::from_str::<Request>
ParseFail == [ok |-> FALSE]
Parsed(v, rest) == [ok |-> TRUE, v |-> v, rest |-> rest]

\* The parse r failed, or F of what it gave.
Then(r, F(_)) == Let(r, LAMBDA x : IF x.ok THEN F(x) ELSE ParseFail)

\* The bytes after `lit`, if the input starts with it.
Expect(input, lit) ==
    IF IsPrefix(lit, input) THEN Parsed(lit, SubSeq(input, Len(lit) + 1, Len(input)))
    ELSE ParseFail

RECURSIVE ParseStringBody(_, _)
\* The bytes of a string up to its closing quote, escapes undone.
ParseStringBody(input, acc) ==
    IF input = <<>> THEN ParseFail
    ELSE IF input[1] = 34 THEN Parsed(acc, Tail(input))
    ELSE IF input[1] = 92
    THEN IF Len(input) < 2 THEN ParseFail
         ELSE IF input[2] = 34 \/ input[2] = 92 \/ input[2] = 47
         THEN ParseStringBody(Tail(Tail(input)), Append(acc, input[2]))
         ELSE IF input[2] = 110 THEN ParseStringBody(Tail(Tail(input)), Append(acc, 10))
         ELSE IF input[2] = 116 THEN ParseStringBody(Tail(Tail(input)), Append(acc, 9))
         ELSE IF input[2] = 114 THEN ParseStringBody(Tail(Tail(input)), Append(acc, 13))
         ELSE ParseFail
    ELSE IF input[1] < 32 THEN ParseFail
    ELSE ParseStringBody(Tail(input), Append(acc, input[1]))

\* A JSON string: its bytes.
ParseStringBytes(input) ==
    IF input = <<>> \/ input[1] # 34 THEN ParseFail
    ELSE ParseStringBody(Tail(input), <<>>)

\* Deserialize for String
ParseString(input) ==
    Then(ParseStringBytes(input),
         LAMBDA r : Let(from_utf8(r.v),
                        LAMBDA text : IF text.some THEN Parsed(text.v, r.rest) ELSE ParseFail))

\* Deserialize for PathBuf
ParsePath(input) == ParseStringBytes(input)

RECURSIVE ParseDigits(_, _, _)
ParseDigits(input, n, any) ==
    IF input # <<>> /\ input[1] >= 48 /\ input[1] <= 57
    THEN ParseDigits(Tail(input), 10 * n + (input[1] - 48), TRUE)
    ELSE IF any THEN Parsed(n, input) ELSE ParseFail

\* Deserialize for an unsigned integer
ParseNumber(input) == ParseDigits(input, 0, FALSE)

RECURSIVE ParsePathsTail(_, _)
\* The elements of an array after its first, up to `]` (not consumed).
ParsePathsTail(input, acc) ==
    Let(Expect(input, J_comma),
        LAMBDA comma :
            IF comma.ok
            THEN Then(ParsePath(comma.rest),
                      LAMBDA p : ParsePathsTail(p.rest, Append(acc, p.v)))
            ELSE Parsed(acc, input))

\* Deserialize for Vec<PathBuf>, after `[` and up to `]` (not consumed).
ParsePaths(input) ==
    IF input # <<>> /\ input[1] = 34
    THEN Then(ParsePath(input), LAMBDA p : ParsePathsTail(p.rest, <<p.v>>))
    ELSE Parsed(<<>>, input)

ParseRustcStarted(input) ==
    Then(Expect(input, J_open_RustcStarted), LAMBDA open :
    Then(ParseString(open.rest), LAMBDA s :
    Then(Expect(s.rest, J_close), LAMBDA close :
        Parsed([variant |-> "RustcStarted", v |-> s.v], close.rest))))

ParseRustcComplete(input) ==
    Then(Expect(input, J_open_RustcComplete), LAMBDA open :
    Then(ParseString(open.rest), LAMBDA crate_name :
    Then(Expect(crate_name.rest, J_source_paths), LAMBDA key :
    Then(ParsePaths(key.rest), LAMBDA source_paths :
    Then(Expect(source_paths.rest, J_close_RustcComplete), LAMBDA close :
        Parsed([variant |-> "RustcComplete",
                v |-> [crate_name |-> crate_name.v, source_paths |-> source_paths.v]],
               close.rest))))))

ParseCrateUsesUnsafe(input) ==
    Then(Expect(input, J_open_CrateUsesUnsafe), LAMBDA open :
    Then(ParseString(open.rest), LAMBDA crate_name :
    Then(Expect(crate_name.rest, J_error_info), LAMBDA key1 :
    Then(ParsePath(key1.rest), LAMBDA file_name :
    Then(Expect(file_name.rest, J_start_line), LAMBDA key2 :
    Then(ParseNumber(key2.rest), LAMBDA start_line :
    Then(Expect(start_line.rest, J_close_CrateUsesUnsafe), LAMBDA close :
        Parsed([variant |-> "CrateUsesUnsafe",
                v |-> [crate_name |-> crate_name.v,
                       error_info |-> [file_name |-> file_name.v,
                                       start_line |-> start_line.v]]],
               close.rest))))))))

\* One variant's parse, or the next one's if it failed.
OrElse(r, next) == Let(r, LAMBDA x : IF x.ok THEN x ELSE next)

\* serde_json::from_str::<Request>: the variant the text names, its value and
\* nothing after it.
from_str(serialized) ==
    Let(OrElse(ParseRustcStarted(serialized),
               OrElse(ParseRustcComplete(serialized), ParseCrateUsesUnsafe(serialized))),
        LAMBDA r : IF r.ok /\ r.rest = <<>> THEN Ok(r.v) ELSE Err("Invalid message"))

\* read_from_stream: the value read and the bytes it took from the stream.
read_from_stream(input) ==
    IF Len(input) < UsizeBytes
    THEN [result |-> Err("failed to fill whole buffer"), taken |-> Len(input)]
    ELSE Let(from_le_bytes(SubSeq(input, 1, UsizeBytes)),
             LAMBDA len :
                IF Len(input) - UsizeBytes < len
                THEN [result |-> Err("failed to fill whole buffer"), taken |-> Len(input)]
                ELSE Let(SubSeq(input, UsizeBytes + 1, UsizeBytes + len),
                         LAMBDA buf :
                            [result |-> IF ~from_utf8(buf).some THEN Err("invalid utf-8")
                                        ELSE from_str(buf),
                             taken |-> UsizeBytes + len]))

\* ---- the Requests of a run
MaxStringLen == 1

Chars == {c_a, c_quote, c_backslash, c_newline, c_e_acute}
Strings == SeqsUpTo(Chars, MaxStringLen)
PathBytes == {97, b_slash, 195, b_continuation, b_invalid}
PathBufs == SeqsUpTo(PathBytes, MaxStringLen + 1)
StartLines == {0, 42, 1000}

\* The request of tests::serialize_deserialize, with crate name "a" and file "a/a".
TestRequest ==
    [variant |-> "CrateUsesUnsafe",
     v |-> [crate_name |-> <<c_a>>,
            error_info |-> [file_name |-> <<97, b_slash, 97>>, start_line |-> 42]]]

\* One or two requests are to be written to one stream.
RpcInit ==
    /\ NamesIdle
    /\ PermIdle
    /\ ScanIdle
    /\ UiIdle
    /\ CounterIdle
    /\ \E first \in {<<>>, <<TestRequest>>} :
        \/ \E s \in Strings :
                rpc_queue = first \o <<[variant |-> "RustcStarted", v |-> s]>>
        \/ \E s \in Strings, ps \in SeqsUpTo(PathBufs, 1) \cup {<<<<97>>, <<b_slash, 97>>>>} :
                rpc_queue = first \o
                    <<[variant |-> "RustcComplete",
                       v |-> [crate_name |-> s, source_paths |-> ps]]>>
        \/ \E s \in Strings, p \in PathBufs, n \in StartLines :
                rpc_queue = first \o
                    <<[variant |-> "CrateUsesUnsafe",
                       v |-> [crate_name |-> s,
                              error_info |-> [file_name |-> p, start_line |-> n]]]>>
    /\ stream = <<>>
    /\ rpc_sent = <<>>
    /\ rpc_write = NoWrite
    /\ rpc_read = <<>>

RpcKeep == UNCHANGED <<namesVars, permVars, scanVars, uiVars, counterVars>>

\* write_to_stream(&request, &mut ipc) for the next request.
WriteToStream ==
    /\ rpc_queue # <<>>
    /\ LET value == Head(rpc_queue)
           written == write_to_stream(value)
       IN  /\ rpc_write' = [kind |-> "write", ok |-> written.ok, value |-> value, before |-> stream]
           /\ IF written.ok
              THEN /\ stream' = stream \o written.v
                   /\ rpc_sent' = Append(rpc_sent, value)
              ELSE UNCHANGED <<stream, rpc_sent>>
    /\ rpc_queue' = Tail(rpc_queue)
    /\ UNCHANGED rpc_read
    /\ RpcKeep

\* read_from_stream(&mut ipc) at the other end, once the writes are done.
ReadFromStream ==
    /\ rpc_queue = <<>>
    /\ stream # <<>>
    /\ LET r == read_from_stream(stream)
       IN  /\ rpc_read' = Append(rpc_read, [result |-> r.result, taken |-> r.taken])
           /\ stream' = SubSeq(stream, r.taken + 1, Len(stream))
    /\ UNCHANGED <<rpc_queue, rpc_sent, rpc_write>>
    /\ RpcKeep

RpcNext == WriteToStream \/ ReadFromStream

SpecRpc == RpcInit /\ [][RpcNext]_vars

(***************************************************************************)
(* ui/full_term.rs: FullTermUi::run                                        *)
(***************************************************************************)
\* ProblemsAdded events the pipeline sends, times another thread takes the
\* problem-store lock, and abort signals counted (the count stops there).
MaxEvents == 2
MaxLocks == 1
MaxAborts == 2

\* The statements of the `if screen.quit_requested()` block, lines 104-113, in
\* program order: "unlock" is the guard `pstore` going out of scope.
QuitBlockSendFirst == <<"send", "lock", "sleep", "abort", "unlock">>

QuitBlock == <<"lock", "send", "sleep", "abort", "unlock">>

\* The keys crossterm can deliver: the quit key and two others.
Keys == {"q", "Down", "Enter"}

\* screen.handle_key(key): the quit key requests quit; any other key leaves
\* quit_requested alone and may fail.
handle_key(key, quit) ==
    IF key = "q" THEN {[quit |-> TRUE, err |-> FALSE]}
    ELSE {[quit |-> quit, err |-> e] : e \in BOOLEAN}

\* A key pressed during a popup handed on to the screen as well.
KeyStepForwards(popup, key) ==
    [dismiss |-> popup, abort |-> popup /\ key = "q", handle |-> TRUE]

\* Lines 149-159 for one key: with a popup up, error.take() dismisses it, `q`
\* aborts the store and the loop continues; without one the screen handles it.
KeyStep(popup, key) ==
    IF popup THEN [dismiss |-> TRUE, abort |-> key = "q", handle |-> FALSE]
    ELSE [dismiss |-> FALSE, abort |-> FALSE, handle |-> TRUE]

UiInit ==
    /\ NamesIdle
    /\ PermIdle
    /\ ScanIdle
    /\ RpcIdle
    /\ CounterIdle
    /\ upc = "recv"
    /\ qi = 0
    /\ quit_requested = FALSE
    /\ error = FALSE
    /\ needs_redraw = TRUE
    /\ events = <<>>
    /\ sender_alive = TRUE
    /\ nevents = 0
    /\ store_lock = "free"
    /\ nlocks = 0
    /\ store_aborted = FALSE
    /\ abort_sent = 0
    /\ terminal = FALSE
    /\ quit_ops = <<>>
    /\ ui_key = NoKey
    /\ ui_exit = "none"

UiKeep == UNCHANGED <<namesVars, permVars, scanVars, rpcVars, counterVars>>

\* ---- the pipeline and the other threads
\* The pipeline sends AppEvent::ProblemsAdded.
SendProblemsAdded ==
    /\ upc # "idle"
    /\ sender_alive
    /\ nevents < MaxEvents
    /\ events' = Append(events, "ProblemsAdded")
    /\ nevents' = nevents + 1
    /\ UNCHANGED <<upc, qi, quit_requested, error, needs_redraw, sender_alive, store_lock,
                   nlocks, store_aborted, abort_sent, terminal, quit_ops, ui_key, ui_exit>>
    /\ UiKeep

\* The pipeline sends AppEvent::Shutdown, or drops its sender, and sends no more.
PipelineEnd ==
    /\ upc # "idle"
    /\ sender_alive
    /\ sender_alive' = FALSE
    /\ \/ events' = Append(events, "Shutdown")
       \/ events' = events
    /\ UNCHANGED <<upc, qi, quit_requested, error, needs_redraw, nevents, store_lock,
                   nlocks, store_aborted, abort_sent, terminal, quit_ops, ui_key, ui_exit>>
    /\ UiKeep

\* Another thread takes the problem-store lock.
OtherLock ==
    /\ upc # "idle"
    /\ store_lock = "free"
    /\ nlocks < MaxLocks
    /\ store_lock' = "other"
    /\ nlocks' = nlocks + 1
    /\ UNCHANGED <<upc, qi, quit_requested, error, needs_redraw, events, sender_alive,
                   nevents, store_aborted, abort_sent, terminal, quit_ops, ui_key, ui_exit>>
    /\ UiKeep

\* ... and releases it.
OtherUnlock ==
    /\ store_lock = "other"
    /\ store_lock' = "free"
    /\ UNCHANGED <<upc, qi, quit_requested, error, needs_redraw, events, sender_alive,
                   nevents, nlocks, store_aborted, abort_sent, terminal, quit_ops, ui_key,
                   ui_exit>>
    /\ UiKeep

\* ---- FullTermUi::run
\* The loop going round again where run returns.
ReturnContinues(why) ==
    /\ upc' = "top"
    /\ ui_exit' = why

\* `return Ok(())`
Return(why) ==
    /\ upc' = "returned"
    /\ ui_exit' = why

\* Lines 98-101: the blocking recv before the terminal is entered.
UiFirstRecv ==
    /\ upc = "recv"
    /\ \/ /\ events # <<>>
          /\ events' = Tail(events)
          /\ IF Head(events) = "ProblemsAdded"
             THEN upc' = "term" /\ UNCHANGED ui_exit
             ELSE Return("Shutdown")
       \/ /\ events = <<>>
          /\ ~sender_alive
          /\ Return("Disconnected")
          /\ UNCHANGED events
    /\ UNCHANGED <<qi, quit_requested, error, needs_redraw, sender_alive, nevents, store_lock,
                   nlocks, store_aborted, abort_sent, terminal, quit_ops, ui_key>>
    /\ UiKeep

\* Line 102: Terminal::new()?
UiTerminalNew ==
    /\ upc = "term"
    /\ \/ upc' = "top" /\ terminal' = TRUE
       \/ upc' = "failed" /\ terminal' = FALSE
    /\ UNCHANGED <<qi, quit_requested, error, needs_redraw, events, sender_alive, nevents,
                   store_lock, nlocks, store_aborted, abort_sent, quit_ops, ui_key, ui_exit>>
    /\ UiKeep

\* Line 104: the head of the loop.
UiLoopTop ==
    /\ upc = "top"
    /\ IF quit_requested
       THEN upc' = "quit" /\ qi' = 1 /\ quit_ops' = <<>>
       ELSE upc' = "redraw" /\ UNCHANGED <<qi, quit_ops>>
    /\ ui_key' = NoKey
    /\ UNCHANGED <<quit_requested, error, needs_redraw, events, sender_alive, nevents,
                   store_lock, nlocks, store_aborted, abort_sent, terminal, ui_exit>>
    /\ UiKeep

\* Lines 105-113: the next statement of the quit block.
UiQuitStep ==
    /\ upc = "quit"
    /\ LET op == QuitBlock[qi]
       IN  /\ op = "lock" => store_lock = "free"
           /\ store_lock' = IF op = "lock" THEN "ui"
                            ELSE IF op = "unlock" THEN "free"
                            ELSE store_lock
           /\ abort_sent' = IF op = "send" /\ abort_sent < MaxAborts THEN abort_sent + 1
                            ELSE abort_sent
           /\ store_aborted' = (store_aborted \/ op = "abort")
           /\ quit_ops' = Append(quit_ops, op)
    /\ IF qi = Len(QuitBlock)
       THEN upc' = "redraw" /\ qi' = 0
       ELSE qi' = qi + 1 /\ UNCHANGED upc
    /\ UNCHANGED <<quit_requested, error, needs_redraw, events, sender_alive, nevents, nlocks,
                   terminal, ui_key, ui_exit>>
    /\ UiKeep

\* Lines 114-127: draw if needed; drawing can fail.
UiRedraw ==
    /\ upc = "redraw"
    /\ IF needs_redraw
       THEN \/ upc' = "try_recv" /\ needs_redraw' = FALSE
            \/ upc' = "failed" /\ UNCHANGED needs_redraw
       ELSE upc' = "try_recv" /\ UNCHANGED needs_redraw
    /\ UNCHANGED <<qi, quit_requested, error, events, sender_alive, nevents, store_lock,
                   nlocks, store_aborted, abort_sent, terminal, quit_ops, ui_key, ui_exit>>
    /\ UiKeep

\* Lines 128-138: try_recv gives an event or finds the channel disconnected.
UiTryRecv ==
    /\ upc = "try_recv"
    /\ \/ /\ events # <<>>
          /\ events' = Tail(events)
          /\ IF Head(events) = "ProblemsAdded"
             THEN /\ upc' = "top"
                  /\ needs_redraw' = TRUE
                  /\ error' \in {error, TRUE}
                  /\ UNCHANGED ui_exit
             ELSE /\ Return("Shutdown")
                  /\ UNCHANGED <<needs_redraw, error>>
       \/ /\ events = <<>>
          /\ ~sender_alive
          /\ Return("Disconnected")
          /\ UNCHANGED <<events, needs_redraw, error>>
    /\ UNCHANGED <<qi, quit_requested, sender_alive, nevents, store_lock, nlocks,
                   store_aborted, abort_sent, terminal, quit_ops, ui_key>>
    /\ UiKeep

\* Lines 139-161: try_recv found the channel empty; poll the terminal for
\* 100 ms and handle what it read.
UiPoll ==
    /\ upc = "try_recv"
    /\ events = <<>>
    /\ sender_alive
    /\ \/ /\ upc' = "failed"
          /\ UNCHANGED <<needs_redraw, error, quit_requested, ui_key>>
       \/ /\ upc' = "top"
          /\ UNCHANGED <<needs_redraw, error, quit_requested, ui_key>>
       \/ /\ upc' = "top"
          /\ needs_redraw' = TRUE
          /\ UNCHANGED <<error, quit_requested, ui_key>>
       \/ \E key \in Keys :
            LET step == KeyStep(error, key)
            IN  /\ needs_redraw' = TRUE
                /\ \E handled \in (IF step.handle THEN handle_key(key, quit_requested)
                                   ELSE {[quit |-> quit_requested, err |-> FALSE]}) :
                        /\ quit_requested' = handled.quit
                        /\ error' = IF step.dismiss THEN handled.err
                                    ELSE (error \/ handled.err)
                /\ upc' = IF step.abort THEN "popup_abort" ELSE "top"
                /\ ui_key' = [kind |-> "key", key |-> key, popup |-> error,
                              handled |-> step.handle, quit_before |-> quit_requested,
                              aborted_before |-> store_aborted]
    /\ UNCHANGED <<qi, events, sender_alive, nevents, store_lock, nlocks, store_aborted,
                   abort_sent, terminal, quit_ops, ui_exit>>
    /\ UiKeep

\* Line 153: problem_store.lock().abort(), then `continue`.
UiPopupAbort ==
    /\ upc = "popup_abort"
    /\ store_lock = "free"
    /\ store_aborted' = TRUE
    /\ upc' = "top"
    /\ UNCHANGED <<qi, quit_requested, error, needs_redraw, events, sender_alive, nevents,
                   store_lock, nlocks, abort_sent, terminal, quit_ops, ui_key, ui_exit>>
    /\ UiKeep

\* One step of the thread that runs FullTermUi::run.
UiStep ==
    \/ UiFirstRecv
    \/ UiTerminalNew
    \/ UiLoopTop
    \/ UiQuitStep
    \/ UiRedraw
    \/ UiTryRecv
    \/ UiPoll
    \/ UiPopupAbort

UiNext ==
    \/ UiStep
    \/ SendProblemsAdded
    \/ PipelineEnd
    \/ OtherLock
    \/ OtherUnlock

SpecUi == UiInit /\ [][UiNext]_vars

\* The thread of run is scheduled, a thread that holds the lock releases it,
\* and the pipeline ends with Shutdown or by dropping its sender.
SpecUiFair ==
    /\ UiInit
    /\ [][UiNext]_vars
    /\ WF_vars(UiStep)
    /\ WF_vars(OtherUnlock)
    /\ WF_vars(PipelineEnd)

(***************************************************************************)
(* ui/full_term.rs: update_counter                                         *)
(***************************************************************************)
\* usize is modelled UsizeBits wide; a list takes at most MaxKeys key presses.
UsizeBits == 3
MaxKeys == 2

RECURSIVE Pow2(_)
Pow2(n) == IF n = 0 THEN 1 ELSE 2 * Pow2(n - 1)

\* usize::MAX
UsizeMax == Pow2(UsizeBits) - 1

Panic == [panic |-> TRUE, v |-> 0]
Value(n) == [panic |-> FALSE, v |-> n]

\* a + b on usize: with overflow checks (debug builds) an overflow panics,
\* without them (release builds) it wraps.
usize_add(a, b, overflow_checks) ==
    IF a.panic THEN Panic
    ELSE IF a.v + b <= UsizeMax THEN Value(a.v + b)
    ELSE IF overflow_checks THEN Panic
    ELSE Value((a.v + b) % (UsizeMax + 1))

\* a - b on usize
usize_sub(a, b, overflow_checks) ==
    IF a.panic THEN Panic
    ELSE IF a.v >= b THEN Value(a.v - b)
    ELSE IF overflow_checks THEN Panic
    ELSE Value((a.v - b) % (UsizeMax + 1))

\* a % b on usize: the remainder by zero panics in every build.
usize_rem(a, b) ==
    IF a.panic \/ b = 0 THEN Panic ELSE Value(a.v % b)

\* Up moving the way Down does.
update_counter_up_is_down(counter, key_code, len, overflow_checks) ==
    IF key_code \in {"Up", "Down"}
    THEN usize_rem(usize_add(usize_add(Value(counter), len, overflow_checks),
                             1, overflow_checks), len)
    ELSE Panic

\* update_counter(&mut counter, key_code, len): the new *counter, or a panic.
update_counter(counter, key_code, len, overflow_checks) ==
    IF key_code = "Up"
    THEN usize_rem(usize_sub(usize_add(Value(counter), len, overflow_checks),
                             1, overflow_checks), len)
    ELSE IF key_code = "Down"
    THEN usize_rem(usize_add(usize_add(Value(counter), len, overflow_checks),
                             1, overflow_checks), len)
    ELSE Panic

\* A list of any length a usize can hold, the counter at any of its rows, in
\* a build with or without overflow checks.
CounterInit ==
    /\ NamesIdle
    /\ PermIdle
    /\ ScanIdle
    /\ RpcIdle
    /\ UiIdle
    /\ cpc = "keys"
    /\ list_len \in 1..UsizeMax
    /\ row \in 0..(list_len - 1)
    /\ checks \in BOOLEAN
    /\ counter_start = row
    /\ counter_keys = <<>>

CounterKeep == UNCHANGED <<namesVars, permVars, scanVars, rpcVars, uiVars>>

\* One key press handed to update_counter.
UpdateCounter ==
    /\ cpc = "keys"
    /\ Len(counter_keys) < MaxKeys
    /\ \E key_code \in {"Up", "Down", "Enter"} :
        LET r == update_counter(row, key_code, list_len, checks)
        IN  /\ counter_keys' = Append(counter_keys, [key |-> key_code, before |-> row])
            /\ IF r.panic
               THEN cpc' = "panicked" /\ UNCHANGED row
               ELSE row' = r.v /\ UNCHANGED cpc
    /\ UNCHANGED <<list_len, checks, counter_start>>
    /\ CounterKeep

CounterNext == UpdateCounter

SpecCounter == CounterInit /\ [][CounterNext]_vars

(***************************************************************************)
(* Claims about split_names (SpecNames)                                    *)
(***************************************************************************)
\* The characters the iterator has yielded so far.
Consumed == SubSeq(composite, 1, Len(composite) - Len(chars))

\* The yielded text holds ` as ` with no closing `>` after it.
AfterAs ==
    \E i \in 1..(Len(Consumed) - 3) :
        /\ SubSeq(Consumed, i, i + 3) = sp_as_sp
        /\ \A j \in (i + 4)..Len(Consumed) : Consumed[j] # ">"

\* The Name being accumulated, with the pending component flushed into it.
CurrentName == IF part # <<>> THEN Append(parts, part) ELSE parts

C6_StepRule ==
    LET ch == Head(chars)
    IN  /\ ch \in {"(", ")"} => UNCHANGED <<part, parts, all_names>>
        /\ ch = ":" =>
            /\ part' = <<>>
            /\ parts' = CurrentName
            /\ all_names' = all_names
        /\ (ch = ">" /\ AfterAs) => UNCHANGED <<part, parts, all_names>>
        /\ (ch \in {"<", ">"} /\ ~(ch = ">" /\ AfterAs)) =>
            /\ part' = <<>>
            /\ parts' = <<>>
            /\ all_names' =
                IF CurrentName # <<>> THEN Append(all_names, CurrentName) ELSE all_names

C6_Examples ==
    /\ composite = DropInPlace =>
        all_names = <<<<w_core, w_ptr, w_drop_in_place>>, <<w_std, w_rt, w_lang_start>>,
                      <<w_closure>>>>
    /\ composite = StringAsDebug =>
        all_names = <<<<w_alloc, w_string, w_String>>, <<w_core, w_fmt, w_Debug, w_fmt>>>>

\* C6: split_names makes one left-to-right pass in which `::` ends a component,
\* parentheses are skipped, `<` and `>` end the current Name and start a fresh one,
\* and after ` as ` the next closing `>` does not start a fresh Name; the two
\* documented inputs give the documented lists of Names.
C6_SplitNamesRules ==
    [][/\ (npc = "loop" /\ chars # <<>>) => C6_StepRule
       /\ npc' = "done" => C6_Examples']_vars

\* C7 as stated: every emitted Name, joined with `::`, is a substring of the
\* composite.
C7_RoundTripAlways ==
    npc = "done" =>
        \A k \in 1..Len(all_names) : IsSubstring(NameToString(all_names[k]), composite)

\* Every maximal run of `:` in s has length two.
ColonsInPairs(s) ==
    \A i \in 1..Len(s) :
        s[i] = ":" =>
            \/ /\ i < Len(s)
               /\ s[i + 1] = ":"
               /\ (i > 1 => s[i - 1] # ":")
               /\ (i + 2 <= Len(s) => s[i + 2] # ":")
            \/ /\ i > 1
               /\ s[i - 1] = ":"
               /\ (i > 2 => s[i - 2] # ":")
               /\ (i < Len(s) => s[i + 1] # ":")

\* No parenthesis, no ` as `, and `:` only in `::`.
PlainComposite(s) ==
    /\ \A i \in 1..Len(s) : s[i] \notin {"(", ")"}
    /\ ~IsSubstring(sp_as_sp, s)
    /\ ColonsInPairs(s)

\* C7 (amended): for a composite without parentheses, without ` as ` and whose
\* colons occur only as `::`, every emitted Name joined with `::` is a substring
\* of the composite.
C7_RoundTripPlain ==
    (npc = "done" /\ PlainComposite(composite)) =>
        \A k \in 1..Len(all_names) : IsSubstring(NameToString(all_names[k]), composite)

\* A plain composite has been split and one of its Names has several components.
C7_Witness ==
    /\ npc = "done"
    /\ PlainComposite(composite)
    /\ \E k \in 1..Len(all_names) : Len(all_names[k]) >= 2

(***************************************************************************)
(* Claims about the permission table (SpecPerm)                            *)
(***************************************************************************)
\* b's components are the first components of a, compared one by one.
ComponentPrefix(b, a) ==
    /\ Len(b) <= Len(a)
    /\ \A i \in 1..Len(b) : a[i] = b[i]

IncludeNames(cfg) == {PrefixName(cfg.include[i]) : i \in 1..Len(cfg.include)}
ExcludeNames(cfg) == {PrefixName(cfg.exclude[i]) : i \in 1..Len(cfg.exclude)}

\* C3: a candidate Name matches a PermConfig iff some include prefix is a
\* component-wise prefix of it and no exclude prefix is; apis_for_path returns
\* exactly the PermissionNames whose PermConfig matches; [std, environment] does
\* not start with [std, env].
C3_PermissionMatch ==
    ppc = "done" =>
        /\ apis \subseteq DOMAIN table
        /\ \A p \in DOMAIN table :
            p \in apis <=>
                /\ \E b \in IncludeNames(table[p]) : ComponentPrefix(b, cand)
                /\ \A b \in ExcludeNames(table[p]) : ~ComponentPrefix(b, cand)
        /\ (ComponentPrefix(<<w_std, w_environment>>, cand)
                /\ "user" \in DOMAIN table
                /\ IncludeNames(table["user"]) = {<<w_std, w_env>>}) => apis = {}

\* apis_for_path has answered for std::environment::var under a configuration
\* that includes only std::env.
C3_Witness ==
    /\ ppc = "done"
    /\ cand = <<w_std, w_environment, w_var>>
    /\ "user" \in DOMAIN table
    /\ IncludeNames(table["user"]) = {<<w_std, w_env>>}
    /\ apis = {}

BuiltInTable == "terminate" \in DOMAIN table

Terminating ==
    \/ ComponentPrefix(<<w_std, w_process, w_abort>>, cand)
    \/ ComponentPrefix(<<w_std, w_process, w_exit>>, cand)

\* C4: under the built-in table std::env::var does not match fs and
\* std::env::current_dir does; std::process::exit matches terminate and not
\* process; every Name under std::process::abort or std::process::exit matches
\* terminate and not process, every other Name under std::process matches
\* process and not terminate.
C4_ExclusionsOverride ==
    (ppc = "done" /\ BuiltInTable) =>
        /\ cand = <<w_std, w_env, w_var>> => "fs" \notin apis
        /\ cand = <<w_std, w_env, w_current_dir>> => "fs" \in apis
        /\ cand = <<w_std, w_process, w_exit>> =>
            ("process" \notin apis /\ "terminate" \in apis)
        /\ Terminating => ("terminate" \in apis /\ "process" \notin apis)
        /\ (ComponentPrefix(<<w_std, w_process>>, cand) /\ ~Terminating) =>
            ("process" \in apis /\ "terminate" \notin apis)

\* apis_for_path has answered for a Name below std::process::exit.
C4_Witness ==
    /\ ppc = "done"
    /\ BuiltInTable
    /\ cand = <<w_std, w_process, w_exit, w_x>>
    /\ apis = {"terminate"}

\* The include and exclude prefixes of a table, as sets of strings.
TableSets(tbl) ==
    [p \in DOMAIN tbl |->
        [include |-> {tbl[p].include[i] : i \in 1..Len(tbl[p].include)},
         exclude |-> {tbl[p].exclude[i] : i \in 1..Len(tbl[p].exclude)}]]

\* std::os::{linux,unix,wasi,windows}::{fs,io}
OsFsIo ==
    {Lit(<<w_std, w_os, P, K>>) : P \in {w_linux, w_unix, w_wasi, w_windows},
                                  K \in {w_fs, w_io}}

\* The table of section 6 of the specification.
Section6Table ==
    [p \in {"fs", "env", "net", "process", "terminate"} |->
        CASE p = "fs" ->
                [include |-> {Lit(<<w_std, w_fs>>), Lit(<<w_std, w_path>>),
                              Lit(<<w_std, w_io>>), Lit(<<w_std, w_env>>)} \cup OsFsIo,
                 exclude |-> {Lit(<<w_std, w_io, w_stdio>>)}
                     \cup {Lit(<<w_std, w_env, v>>) :
                            v \in {w_var, w_var_os, w_vars, w_vars_os, w_args}}]
          [] p = "env" -> [include |-> {Lit(<<w_std, w_env>>)}, exclude |-> {}]
          [] p = "net" ->
                [include |-> {Lit(<<w_std, w_net>>)}
                     \cup {Lit(<<w_std, w_os, P, w_net>>) : P \in {w_unix, w_wasi, w_windows}},
                 exclude |-> {}]
          [] p = "process" ->
                [include |-> {Lit(<<w_std, w_process>>)}
                     \cup {Lit(<<w_std, P, w_process>>) : P \in {w_unix, w_windows}},
                 exclude |-> {Lit(<<w_std, w_process, w_abort>>),
                              Lit(<<w_std, w_process, w_exit>>)}]
          [] p = "terminate" ->
                [include |-> {Lit(<<w_std, w_process, w_abort>>),
                              Lit(<<w_std, w_process, w_exit>>)},
                 exclude |-> {}]]

\* C5 as stated: the built-in table is the table of section 6, whose fs include
\* set holds all eight std::os::P::K.
C5_TableIsSection6 ==
    (ppc = "done" /\ BuiltInTable) => TableSets(table) = Section6Table

\* C5 (amended): the built-in table is the table of section 6 except that the fs
\* include set has no std::os::linux::io: of the eight std::os::P::K it holds the
\* other seven.
C5_TableIsSection6LessLinuxIo ==
    BuiltInTable =>
        /\ TableSets(table) =
            [Section6Table EXCEPT
                !["fs"].include = @ \ {Lit(<<w_std, w_os, w_linux, w_io>>)}]
        /\ Cardinality(TableSets(table)["fs"].include \cap OsFsIo) = 7

\* The built-in table has answered for std::os::linux::io, which is in no API.
C5_Witness ==
    /\ ppc = "done"
    /\ BuiltInTable
    /\ cand = <<w_std, w_os, w_linux, w_io>>
    /\ apis = {}

(***************************************************************************)
(* Claims about the scan (SpecScan)                                        *)
(***************************************************************************)
SourcePaths == {P_main, P_shared, P_gen, P_rustc, P_registry, P_registryx}
Symbols == {S_main, S_dbinit, S_local, T_fs, T_multi}

\* The candidate Names of each symbol, the crates of each source file and the
\* permissions of each candidate Name: the answers the scan is given.
NamesOf == [symbol \in Symbols |-> SymbolParts(symbol).v]
CratesOf == [path \in SourcePaths |-> crate_names_from_source_path(path)]
PermsOf ==
    [symbol \in Symbols |->
        [ni \in DOMAIN NamesOf[symbol] |-> apis_for_path(ScanTable, NamesOf[symbol][ni])]]

\* The source files under one of the two vendor directories, compared as
\* Path::starts_with compares: by whole components.
VendorPaths ==
    {path \in SourcePaths :
        \/ PathStartsWith(PathText(path), RustcPrefix)
        \/ PathStartsWith(PathText(path), CargoRegistryPrefix)}

\* The one Usage of the k-th record, and the candidate Name that produced it.
UsageOf(k) ==
    LET permission == CHOOSE p \in DOMAIN api_usages[k].usages : TRUE
    IN  api_usages[k].usages[permission][1]

CandidateName(k) == NamesOf[UsageOf(k).to][origin[k].name]

\* The last step was a relocation; its lookup gave a source file or gave none.
AtRelocation == ev.kind = "reloc"
LookupError == AtRelocation /\ ~ev.location.ok
NoSourceFile ==
    /\ AtRelocation
    /\ ev.location.ok
    /\ (~ev.location.v.some \/ ~ev.location.v.v.file.some)
HasSourceFile ==
    /\ AtRelocation
    /\ ev.location.ok
    /\ ev.location.v.some
    /\ ev.location.v.v.file.some
ResolvedFile == ev.location.v.v.file.v
NothingAppended == Len(api_usages) = ev.before
Appended == (ev.before + 1)..Len(api_usages)

\* C1: no intra-package edges: every ApiUsage in GraphOutputs was produced by a
\* candidate Name whose first component differs from the record's crate_name
\* (a (crate, Name) pair whose Name starts with the crate's name emits nothing).
C1_NoIntraPackageEdges ==
    \A k \in DOMAIN api_usages :
        /\ CandidateName(k) # <<>>
        /\ CandidateName(k)[1] # api_usages[k].crate_name

\* C1 witness: one relocation in a file of crates alpha and beta whose target
\* has the Names alpha::db::Conn and std::env::Vars::x: beta got a record for
\* the first Name, alpha got one only for the second.
C1_Witness ==
    \E j, k \in DOMAIN api_usages :
        /\ origin[j].reloc = origin[k].reloc
        /\ UsageOf(k).location.filename = P_shared
        /\ api_usages[k].crate_name = w_beta
        /\ CandidateName(k)[1] = w_alpha
        /\ api_usages[j].crate_name = w_alpha
        /\ CandidateName(j)[1] = w_std
        /\ \A i \in DOMAIN api_usages :
                api_usages[i].crate_name = w_alpha => CandidateName(i)[1] # w_alpha

\* C2 as written: no emitted Usage has a location under /rustc/ or
\* /cargo/registry, and a relocation whose source path is under one of them
\* contributes no record and does not stop the scan.
C2_VendorFilter ==
    /\ \A k \in DOMAIN api_usages : UsageOf(k).location.filename \notin VendorPaths
    /\ (HasSourceFile /\ ResolvedFile \in VendorPaths) =>
            (NothingAppended /\ spc # "err")

\* C2 amended: no emitted Usage has a location under /rustc/ or
\* /cargo/registry, and a relocation whose source path is under one of them
\* contributes no record; it stops the scan exactly when resolving its target
\* symbol fails.
C2_VendorFilterUnlessTargetFails ==
    /\ \A k \in DOMAIN api_usages : UsageOf(k).location.filename \notin VendorPaths
    /\ (HasSourceFile /\ ResolvedFile \in VendorPaths) =>
            /\ NothingAppended
            /\ spc = "err" <=> ev.target = "err"

\* C2 witness: after records were collected, a relocation in
\* /cargo/registry/lib.rs (a file of crate gamma) that targets std::fs::read was
\* dropped and the scan goes on.
C2_Witness ==
    /\ HasSourceFile
    /\ ResolvedFile = P_registry
    /\ CratesOf[P_registry].v # <<>>
    /\ ev.target = T_fs
    /\ ev.before > 0
    /\ NothingAppended
    /\ spc = "relocs"

\* ---- C8
PermissionIndex(p) == CHOOSE i \in DOMAIN PermissionOrder : PermissionOrder[i] = p

\* Where the nested iteration was when it pushed the k-th record.
Tag(k) ==
    <<origin[k].path, origin[k].entry, origin[k].section, origin[k].reloc,
      origin[k].crate, origin[k].name, PermissionIndex(origin[k].permission)>>

RECURSIVE LexLess(_, _)
LexLess(a, b) ==
    /\ a # <<>>
    /\ \/ a[1] < b[1]
       \/ a[1] = b[1] /\ LexLess(Tail(a), Tail(b))

\* The records are in the order of the nested iteration.
Ordered == \A k \in 1..(Len(api_usages) - 1) : LexLess(Tag(k), Tag(k + 1))

\* The (crate, Name, permission) triples a relocation must push, given its
\* source file, its target symbol and the checker's answers.
Expected ==
    IF HasSourceFile /\ ev.target \in Symbols /\ ResolvedFile \notin VendorPaths
    THEN {<<ci, ni, p>> \in
            (DOMAIN CratesOf[ResolvedFile].v) \X (DOMAIN NamesOf[ev.target])
                \X (DOMAIN ScanTable) :
            /\ NamesOf[ev.target][ni][1] # CratesOf[ResolvedFile].v[ci]
            /\ p \in PermsOf[ev.target][ni]}
    ELSE {}

\* What a relocation appended is a function of its inputs: one record for each
\* expected triple, holding the crate, the permission, the source file, the
\* section's symbol and the target.
Determined ==
    (AtRelocation /\ spc # "err") =>
        /\ {<<origin[k].crate, origin[k].name, origin[k].permission>> : k \in Appended}
                = Expected
        /\ \A k \in Appended :
                api_usages[k] =
                    [crate_name |-> CratesOf[ResolvedFile].v[origin[k].crate],
                     usages |-> (origin[k].permission :>
                        <<[location |-> [filename |-> ResolvedFile],
                           from |-> section_index_to_symbol[sec_i + 1].v,
                           to |-> ev.target]>>)]

\* C8: within one scan the ApiUsage sequence only grows at its end, is in the
\* order object x section x relocation x crate x candidate Name x permission,
\* and what each relocation appends is determined by the inputs and the
\* checker's answers.
C8_AppendOnlyOrdered ==
    /\ [](Ordered /\ Determined)
    /\ [][IsPrefix(api_usages, api_usages')]_vars

\* C8 witness: records of two objects, the later object's after the earlier
\* one's, and one relocation's records for two crates in crate order.
C8_Witness ==
    /\ \E j, k \in DOMAIN api_usages : j < k /\ origin[j].path < origin[k].path
    /\ \E j, k \in DOMAIN api_usages :
            /\ j < k
            /\ origin[j].reloc = origin[k].reloc
            /\ origin[j].crate < origin[k].crate

\* ---- C9
MalformedFile == ev.kind = "file" /\ ev.filetype = "Other" /\ ev.bytes = "malformed"
EntryWas(kinds) == ev.kind = "entry" /\ ev.entry \in kinds

\* C9 as written: a malformed standalone object file fails the scan; an archive
\* entry that cannot be read or is not a valid object is skipped, the scan
\* going on with the archive and keeping its records.
C9_MalformedEntrySkipped ==
    /\ MalformedFile => spc = "err"
    /\ EntryWas({"header_err", "read_err", "malformed"}) =>
            (spc = "archive" /\ NothingAppended)

\* C9 amended: a malformed standalone object file fails the scan; an archive
\* entry for which next_entry reports an error is skipped, the scan going on
\* with the archive and keeping its records; an entry whose body cannot be read
\* or is not a valid object fails the scan.
C9_OnlyEntryErrorSkipped ==
    /\ MalformedFile => (spc = "err" /\ scan_error = "Failed to parse")
    /\ EntryWas({"header_err"}) => (spc = "archive" /\ NothingAppended)
    /\ EntryWas({"read_err"}) => (spc = "err" /\ scan_error = "read_to_end failed")
    /\ EntryWas({"malformed"}) => (spc = "err" /\ scan_error = "Failed to parse")

\* C9 witness: an entry that next_entry reported as an error was skipped with
\* records already collected, and the archive loop goes on.
C9_Witness ==
    /\ EntryWas({"header_err"})
    /\ spc = "archive"
    /\ ev.before > 0
    /\ NothingAppended

\* C10 as written, a failure to resolve the relocation's target symbol set
\* aside: if the DWARF lookup of a relocation fails or yields no source file, no
\* ApiUsage is emitted for it and the scan goes on.
C10_LookupFailureNonFatal ==
    (LookupError \/ NoSourceFile) =>
        (NothingAppended /\ (spc = "err" => ev.target = "err"))

\* C10 amended: if the DWARF lookup yields no location or no source file, no
\* ApiUsage is emitted and the scan goes on unless resolving the relocation's
\* target symbol fails; if the lookup returns an error the scan fails with
\* "find_location failed".
C10_MissingFileDropsLookupErrorFails ==
    /\ LookupError => (spc = "err" /\ scan_error = "find_location failed")
    /\ NoSourceFile =>
            /\ NothingAppended
            /\ spc = "err" <=> ev.target = "err"

\* C10 witness: after records were collected, a relocation to std::fs::read at
\* an address with no source file was dropped and the scan goes on.
C10_Witness ==
    /\ NoSourceFile
    /\ ev.target = T_fs
    /\ ev.before > 0
    /\ NothingAppended
    /\ spc = "relocs"

\* The positions, in iteration order, of the symbols of the object that have
\* address 0, a name and the section index sec.
Qualifying(o, sec) ==
    {i \in DOMAIN o.symbols :
        /\ o.symbols[i].address = 0
        /\ o.symbols[i].name # Unnamed
        /\ o.symbols[i].section = Some(sec)}

\* The least of a non-empty set of positions.
FirstOf(positions) == CHOOSE i \in positions : \A j \in positions : i <= j

\* C15: of the symbols of one object file with address 0, a name and a section
\* index, the first in iteration order is the one recorded for its section; a
\* later one for the same section does not replace it.
C15_FirstWriteWins ==
    obj \in Objects =>
        \A k \in DOMAIN section_index_to_symbol :
            LET q == Qualifying(ObjectFile(obj), k - 1)
            IN  IF q = {} THEN ~section_index_to_symbol[k].some
                ELSE section_index_to_symbol[k] =
                        Some(ObjectFile(obj).symbols[FirstOf(q)].name)

\* The relocation the last step took has the object's symbol `index` as target.
TargetIs(index) ==
    /\ AtRelocation
    /\ ev.location.ok
    /\ ev.rel.kind = "Symbol"
    /\ ev.rel.index = index

\* The scan stopped at this relocation with error msg and appended nothing.
FailedWith(msg) == spc = "err" /\ scan_error = msg /\ NothingAppended

\* target_symbol returned this symbol, or no symbol, for the relocation.
Resolved(symbol) ==
    /\ ev.target = (IF symbol.some THEN symbol.v ELSE "none")
    /\ ~symbol.some => (spc = "relocs" /\ NothingAppended)

\* C16: a relocation whose target symbol is named resolves to that symbol; one
\* whose target symbol is unnamed resolves to the defining symbol of that
\* symbol's section, and is skipped when the section has none.  A target that
\* is not a symbol, a symbol index that does not resolve, an unnamed symbol
\* without a section and a section ordinal out of range each stop the scan with
\* their error and without a record for the relocation.
C16_TargetSymbol ==
    (AtRelocation /\ ev.location.ok) =>
        IF ev.rel.kind # "Symbol" THEN FailedWith("Unsupported relocation kind")
        ELSE LET symbols == ObjectFile(obj).symbols
                 symbol == symbols[ev.rel.index + 1]
             IN  IF ev.rel.index + 1 \notin DOMAIN symbols
                 THEN FailedWith("Invalid symbol index in object file")
                 ELSE IF symbol.name # Unnamed THEN Resolved(Some(symbol.name))
                 ELSE IF ~symbol.section.some
                 THEN FailedWith("Relocation target has empty name and no section index")
                 ELSE IF symbol.section.v >= Len(section_index_to_symbol)
                 THEN FailedWith("Unnamed symbol has invalid section index")
                 ELSE Resolved(section_index_to_symbol[symbol.section.v + 1])

\* C16's case: a relocation against an unnamed symbol resolved to its section's
\* defining symbol and gave a record.
C16_Witness ==
    /\ obj = "A"
    /\ TargetIs(2)
    /\ ObjectA.symbols[3].name = Unnamed
    /\ ev.target = S_dbinit
    /\ Appended # {}
    /\ spc = "relocs"

(***************************************************************************)
(* Claims about the RPC codec (SpecRpc)                                    *)
(***************************************************************************)
\* The PathBufs a Request holds.
PathsOf(m) ==
    IF m.variant = "RustcStarted" THEN <<>>
    ELSE IF m.variant = "RustcComplete" THEN m.v.source_paths
    ELSE <<m.v.error_info.file_name>>

Utf8Paths(m) == \A i \in DOMAIN PathsOf(m) : from_utf8(PathsOf(m)[i]).some

\* The bytes the last write_to_stream call added to the stream.
Written == SubSeq(stream, Len(rpc_write.before) + 1, Len(stream))
Payload == SubSeq(Written, UsizeBytes + 1, Len(Written))

\* The first UsizeBytes bytes of `frame` are n, least significant byte first
\* (n is below 2^24 here).
LittleEndianLength(frame, n) ==
    /\ Len(frame) >= UsizeBytes
    /\ frame[1] = n % 256
    /\ frame[2] = (n \div 256) % 256
    /\ frame[3] = (n \div 65536) % 256
    /\ \A i \in 4..UsizeBytes : frame[i] = 0

\* The last call wrote a frame: the length word, then that many bytes, which
\* are UTF-8 text in braces.
WroteFrame ==
    /\ rpc_write.ok
    /\ IsPrefix(rpc_write.before, stream)
    /\ LittleEndianLength(Written, Len(Payload))
    /\ Len(Payload) >= 2
    /\ Payload[1] = 123
    /\ Payload[Len(Payload)] = 125
    /\ from_utf8(Payload).some

\* The k-th read returned the k-th Request written and took its frame.
ReadBack(k) ==
    /\ k <= Len(rpc_sent)
    /\ rpc_read[k].result.ok
    /\ rpc_read[k].result.v.variant = rpc_sent[k].variant
    /\ rpc_read[k].result.v = rpc_sent[k]
    /\ rpc_read[k].taken = UsizeBytes + Len(to_string(rpc_sent[k]).v)

JustWrote == rpc_write.kind = "write" /\ rpc_read = <<>>

Before(i) == {quit_ops[j] : j \in 1..(i - 1)}

\* The quit block has just sent on abort_sender.
JustSent == quit_ops # <<>> /\ quit_ops[Len(quit_ops)] = "send"

\* C12 as stated: once quit is requested the UI sends on the abort sender
\* first and locks the problem store only afterwards, so that the lock is not
\* held at the moment the abort signal is sent.
C12_SendThenLock ==
    /\ \A i \in DOMAIN quit_ops : quit_ops[i] = "send" => "lock" \notin Before(i)
    /\ JustSent => store_lock # "ui"

\* C12, amended: once quit is requested the UI locks the problem store first,
\* sends on the abort sender while it holds the lock, and marks the store
\* aborted only after the send, still under the same lock.
C12_LockSendAbort ==
    /\ \A i \in DOMAIN quit_ops :
        /\ quit_ops[i] = "send" =>
              "lock" \in Before(i) /\ "abort" \notin Before(i) /\ "unlock" \notin Before(i)
        /\ quit_ops[i] = "abort" => "send" \in Before(i) /\ "unlock" \notin Before(i)
    /\ (upc = "quit" /\ quit_ops # <<>>) => store_lock = "ui"
    /\ JustSent => (store_lock = "ui" /\ abort_sent > 0)
    /\ (quit_ops # <<>> /\ "abort" \in Before(Len(quit_ops) + 1)) => store_aborted

\* C12's case: a quit block that ran to its end.
C12_Witness ==
    /\ upc = "redraw"
    /\ quit_requested
    /\ Len(quit_ops) = Len(QuitBlock)
    /\ store_aborted
    /\ abort_sent > 0
    /\ store_lock = "free"

\* C13: a key read while an error popup is displayed dismisses the popup and
\* is not handed to the screen's key handler; `q` marks the problem store
\* aborted as well, any other key does nothing more.
C13_PopupModal ==
    (ui_key.kind = "key" /\ ui_key.popup) =>
        /\ ~error
        /\ ~ui_key.handled
        /\ quit_requested = ui_key.quit_before
        /\ upc \in {"top", "popup_abort"}
        /\ IF ui_key.key = "q"
           THEN upc = "top" => store_aborted
           ELSE upc = "top" /\ store_aborted = ui_key.aborted_before

\* C13's case: `q` pressed during a popup, before any quit was requested,
\* and the store aborted by it.
C13_Witness ==
    /\ ui_key.kind = "key"
    /\ ui_key.popup
    /\ ui_key.key = "q"
    /\ ~ui_key.aborted_before
    /\ ~quit_requested
    /\ upc = "top"
    /\ store_aborted

\* run returns Ok only on Shutdown or a disconnected channel, never while
\* the pipeline can still send, whatever quit_requested is.
ReturnsOnlyOnShutdown ==
    upc = "returned" => (ui_exit \in {"Shutdown", "Disconnected"} /\ ~sender_alive)

\* If no ProblemsAdded came first, run returns without a terminal.
ReturnsBeforeTerminal ==
    /\ terminal => nevents > 0
    /\ (upc = "returned" /\ nevents = 0) => ~terminal

\* With quit requested, each pass of the loop goes through the quit block
\* and leaves it having sent the abort.
ReissuesAbort ==
    /\ (upc = "top" /\ quit_requested) => upc' \in {"top", "quit"}
    /\ (upc = "quit" /\ upc' # "quit") =>
            (upc' = "redraw" /\ \E i \in DOMAIN quit_ops' : quit_ops'[i] = "send")

\* C17: run returns Ok only by Shutdown or disconnection, before the terminal
\* is entered if that is the first thing it receives; a quit request does not
\* end the loop but makes every pass send the abort again; and once the
\* pipeline sends Shutdown or drops the channel, run returns.
C17_ReturnsOnShutdownOnly ==
    /\ [](ReturnsOnlyOnShutdown /\ ReturnsBeforeTerminal)
    /\ [][ReissuesAbort]_vars
    /\ <>(upc \in {"returned", "failed"})

\* C17's case: quit was requested, the abort sent more than once, and run
\* returned on Shutdown.
C17_Witness ==
    /\ upc = "returned"
    /\ ui_exit = "Shutdown"
    /\ quit_requested
    /\ abort_sent >= 2
    /\ terminal

(***************************************************************************)
(* Claims about update_counter (SpecCounter)                               *)
(***************************************************************************)
\* Only Up and Down were pressed.
Navigated == \A i \in DOMAIN counter_keys : counter_keys[i].key \in {"Up", "Down"}

\* The keys pressed, in order.
KeysPressed == [i \in DOMAIN counter_keys |-> counter_keys[i].key]

\* What the last call of update_counter is to leave in *counter.
Wrapped(call) ==
    IF call.key = "Up"
    THEN IF call.before = 0 THEN list_len - 1 ELSE call.before - 1
    ELSE IF call.before = list_len - 1 THEN 0 ELSE call.before + 1

WrapsAround ==
    Navigated =>
        /\ cpc # "panicked"
        /\ row \in 0..(list_len - 1)
        /\ counter_keys # <<>> => row = Wrapped(counter_keys[Len(counter_keys)])
        /\ KeysPressed \in {<<"Up", "Down">>, <<"Down", "Up">>} => row = counter_start

====
